---- MODULE Spec2Model ----
(***************************************************************************)
(* Verification model of the WorldPop population data pipeline             *)
(* (rabiero/Population-Dashboard, src/data_pipeline and src/run_pipeline). *)
(*                                                                         *)
(* The specifications share one set of variables:                          *)
(*   SpecCache      the file cache (cache_utils.py): get_cached_file and   *)
(*                  download_file over a cache directory and a clock;      *)
(*   SpecSweep      clear_old_cache and get_cache_size on that cache;      *)
(*   SpecConcurrent download_file and get_cached_file interleaved;         *)
(*   SpecLoad       RasterLoader.load_raster with the cache behind it;     *)
(*   SpecZonal      DistrictSummarizer.summarize_raster_by_districts as a  *)
(*                  function of a grid, its profile and a boundary set;    *)
(*   SpecDistricts  the same on boundary sets of any size;                 *)
(*   SpecRegistry   the summarizer's operations and the registry;          *)
(*   SpecIndicators DistrictSummarizer.calculate_demographic_indicators    *)
(*                  as a function of a combined table;                     *)
(*   SpecMetadata   the helpers of extract_metadata.py on URLs;            *)
(*   SpecPipeline   run_pipeline (run_pipeline.py), step by step.          *)
(* A specification leaves the variables of the other parts at their idle   *)
(* values.                                                                 *)
(***************************************************************************)
EXTENDS Integers, Sequences, FiniteSets, TLC

VARIABLES
    files,                  \* cache directory: existing path -> file content
    now,                    \* time.time(), in whole seconds
    ticks,                  \* how many times the clock has advanced
    call,                   \* the last cache call: its arguments and outcome
    raster_info,            \* SpecZonal: the grid handed to the summarizer
    zonal,                  \* SpecZonal: the outcome of the summarizer call
    admin_boundaries,       \* DistrictSummarizer.admin_boundaries
    combined_summary,       \* the combined table (sequence of rows)
    demographic_indicators, \* the outcome of calculate_demographic_indicators
    pc,                     \* run_pipeline: the step about to run
    request,                \* run_pipeline: countries, sex_options, age_groups
    attempts,               \* load_raster calls made so far, in order
    raster_data,            \* batch_load_rasters' nested mapping
    metadata_summary,       \* create_metadata_summary's result
    district_summaries,     \* batch_summarize_rasters' nested mapping
    outcome,                \* run_pipeline: how the run ended
    tmp_dir,                \* the system's temporary directory: path -> content
    loads,                  \* how many load_raster calls have been made
    load,                   \* the last load_raster call: arguments, locals, outcome
    procs,                  \* concurrent cache callers: position and locals of each
    url_info                \* a URL or file name and what the helpers make of it

vars == <<files, now, ticks, call, raster_info, zonal, admin_boundaries,
          combined_summary, demographic_indicators, pc, request, attempts,
          raster_data, metadata_summary, district_summaries, outcome,
          tmp_dir, loads, load, procs, url_info>>

cacheVars == <<files, now, ticks, call, procs>>
zonalVars == <<raster_info, zonal>>
tableVars == <<combined_summary, demographic_indicators>>
runVars == <<pc, request, attempts, raster_data, metadata_summary,
             district_summaries, outcome>>
loadVars == <<tmp_dir, loads, load>>
metadataVars == <<url_info>>

(***************************************************************************)
(* Python values                                                           *)
(***************************************************************************)

\* Python's None where a path is expected: a path is a pair <<stem, suffix>>.
None == <<>>

\* An optional value that is not None.
Some(v) == <<v>>

\* The empty mapping {} / the function with no argument.
EmptyMap == [x \in {} |-> x]

Put(f, k, v) == [x \in DOMAIN f \cup {k} |-> IF x = k THEN v ELSE f[x]]

Remove(f, k) == [x \in DOMAIN f \ {k} |-> f[x]]

Range(s) == {s[i] : i \in DOMAIN s}

RECURSIVE SeqSum(_)
SeqSum(s) == IF s = <<>> THEN 0 ELSE Head(s) + SeqSum(Tail(s))

RECURSIVE SumOfCells(_, _)
\* The sum of a sequence's values over a set of its indices.
SumOfCells(data, cells) ==
    IF cells = {}
    THEN 0
    ELSE LET c == CHOOSE x \in cells : TRUE
         IN data[c] + SumOfCells(data, cells \ {c})

(***************************************************************************)
(* config.py                                                               *)
(***************************************************************************)

WORLDPOP_BASE_URL ==
    "https://data.worldpop.org/GIS/AgeSex_structures/Global_2015_2030_2025/1km_ua/constrained"

COUNTRIES == <<"KEN", "UGA">>

AGE_GROUPS ==
    <<"0_4", "5_9", "10_14", "15_19", "20_24", "25_29",
      "30_34", "35_39", "40_44", "45_49", "50_54",
      "55_59", "60_64", "65_69", "70_74", "75_79", "80_plus">>

SEX_OPTIONS == <<"M", "F">>

GADM_FILES == {"KEN", "UGA"}

CACHE_MAX_AGE == 24 * 60 * 60

(***************************************************************************)
(* cache_utils.py: the cache directory                                     *)
(*                                                                         *)
(* files maps each existing path <<stem, suffix>> of the cache directory   *)
(* to its content.  A payload (.tif) holds the chunks written to it; a     *)
(* sidecar (.json) holds the metadata record, or is not readable as one    *)
(* (ok = FALSE: truncated, not JSON, or without a numeric timestamp).      *)
(***************************************************************************)

\* RasterLoader.get_raster_url(country, sex, age_group)
get_raster_url(country, sex, age_group) ==
    WORLDPOP_BASE_URL \o "/" \o country \o "/v1.0/" \o sex \o "_" \o age_group \o ".tif"

\* The URLs the cache is exercised with.
Urls == {get_raster_url("KEN", "M", "0_4"), get_raster_url("UGA", "F", "80_plus")}

\* hashlib.md5(url.encode()).hexdigest() of those URLs.
generate_cache_key(url) ==
    CASE url = "https://data.worldpop.org/GIS/AgeSex_structures/Global_2015_2030_2025/1km_ua/constrained/KEN/v1.0/M_0_4.tif"
           -> "db0bb26b0197520ad0db1673353cc073"
      [] url = "https://data.worldpop.org/GIS/AgeSex_structures/Global_2015_2030_2025/1km_ua/constrained/UGA/v1.0/F_80_plus.tif"
           -> "9309f93730234b684beee989762d1e5c"

\* cache_dir / f"{cache_key}.tif"
CacheFile(url) == <<generate_cache_key(url), ".tif">>

\* cache_dir / f"{cache_key}.json"
MetadataFile(url) == <<generate_cache_key(url), ".json">>

\* response.iter_content(...): the chunks of a complete response body.
Body == <<"chunk1", "chunk2">>

Payload(chunks) == [data |-> chunks]

\* json.dump({'url': .., 'timestamp': .., 'size': ..}, f)
Metadata(url, timestamp, size) ==
    [ok |-> TRUE, url |-> url, timestamp |-> timestamp, size |-> size]

\* A sidecar that json.load cannot read, or that has no usable 'timestamp'.
CorruptMetadata == [ok |-> FALSE, url |-> "", timestamp |-> 0, size |-> 0]

Exists(fs, path) == path \in DOMAIN fs

\* The max_age arguments get_cached_file is called with: the default, and a
\* caller's own (the shortest age that can expire an entry).
MaxAges == {CACHE_MAX_AGE, 1}

\* How far the clock moves between two calls.
TickSteps == {1, CACHE_MAX_AGE - 1}

\* The clock advances at most this many times.
MaxTicks == 3

\* get_cached_file's validity test, line 37, as a bug would have it.
FreshInclusive(age, max_age) == age <= max_age

\* time.time() - metadata['timestamp'] < max_age
Fresh(age, max_age) == age < max_age

\* cache_file.exists() and metadata_file.exists()
EntryExists(fs, url) ==
    Exists(fs, CacheFile(url)) /\ Exists(fs, MetadataFile(url))

\* get_cached_file(url, cache_dir, max_age): the path, or None.  Reading an
\* unreadable sidecar raises inside the try and is caught (line 42).
get_cached_file(fs, t, url, max_age) ==
    IF EntryExists(fs, url)
    THEN IF Exists(fs, MetadataFile(url)) /\ fs[MetadataFile(url)].ok
         THEN IF Fresh(t - fs[MetadataFile(url)].timestamp, max_age)
              THEN CacheFile(url)
              ELSE None
         ELSE None
    ELSE None

\* Where a download_file call fails, if it does.
Faults == {"none", "request", "status", "payload_open", "payload_write",
           "metadata_open", "metadata_write"}

\* download_file, lines 69-71: nothing is written on a failed request or a
\* non-2xx status, nor when the payload cannot be opened; a failed write
\* leaves the chunks written so far.
WritePayload(fs, url, fault) ==
    CASE fault \in {"request", "status", "payload_open"} -> fs
      [] fault = "payload_write" -> Put(fs, CacheFile(url), Payload(<<Head(Body)>>))
      [] OTHER -> Put(fs, CacheFile(url), Payload(Body))

\* download_file, lines 74-81, as a bug would have it: the sidecar is never
\* written.
WriteNoMetadata(fs, t, url, fault) == fs

\* download_file, lines 74-81: reached only when the payload was written.
\* open(metadata_file, 'w') creates or truncates the sidecar before json.dump
\* writes it, so a failed dump leaves an unreadable sidecar.
WriteMetadata(fs, t, url, fault) ==
    CASE fault = "none" ->
           Put(fs, MetadataFile(url),
               Metadata(url, t, Len(fs[CacheFile(url)].data)))
      [] fault = "metadata_write" -> Put(fs, MetadataFile(url), CorruptMetadata)
      [] OTHER -> fs

\* download_file, lines 86-91: the except clause removes the payload only.
CleanUp(fs, url, fault) ==
    IF fault # "none" /\ Exists(fs, CacheFile(url))
    THEN Remove(fs, CacheFile(url))
    ELSE fs

\* download_file(url, cache_dir): the directory it leaves, whether it raised,
\* and the path it returned.
download_file(fs, t, url, fault) ==
    [files  |-> CleanUp(WriteMetadata(WritePayload(fs, url, fault), t, url, fault),
                        url, fault),
     raised |-> fault # "none",
     result |-> IF fault = "none" THEN CacheFile(url) ELSE None]

NoCall == [op |-> "none", url |-> "", max_age |-> 0, fault |-> "none",
           raised |-> FALSE, result |-> None, cleared |-> 0, total_size |-> 0]

\* No concurrent callers.
NoProcs == EmptyMap

\* A caller looks a URL up.
Lookup(url, max_age) ==
    /\ call' = [op |-> "get_cached_file", url |-> url, max_age |-> max_age,
                fault |-> "none", raised |-> FALSE,
                result |-> get_cached_file(files, now, url, max_age),
                cleared |-> 0, total_size |-> 0]
    /\ UNCHANGED <<files, now, ticks, procs>>

\* A caller downloads a URL; the request or one of the writes may fail.
Download(url, fault) ==
    LET r == download_file(files, now, url, fault)
    IN /\ files' = r.files
       /\ call' = [op |-> "download_file", url |-> url, max_age |-> 0,
                   fault |-> fault, raised |-> r.raised, result |-> r.result,
                   cleared |-> 0, total_size |-> 0]
       /\ UNCHANGED <<now, ticks, procs>>

\* Time passes between two calls.
Tick(step) ==
    /\ ticks < MaxTicks
    /\ now' = now + step
    /\ ticks' = ticks + 1
    /\ call' = NoCall
    /\ UNCHANGED <<files, procs>>

\* cache_dir.glob("*.tif"): the stems of the payload files.
PayloadStems(fs) == { path[1] : path \in { q \in DOMAIN fs : q[2] = ".tif" } }

\* clear_old_cache's test, line 111, as a bug would have it: the age at
\* which get_cached_file stops trusting an entry.
OldInclusive(age, max_age) == age >= max_age

\* current_time - metadata['timestamp'] > max_age
Old(age, max_age) == age > max_age

\* One iteration of clear_old_cache's loop, lines 104-117, decides to unlink
\* the payload and its sidecar: the sidecar exists, json.load reads it and
\* its timestamp is old.  An unreadable sidecar raises inside the try and
\* the except clause (line 116) logs it.
Clears(fs, t, stem, max_age) ==
    /\ Exists(fs, <<stem, ".json">>)
    /\ fs[<<stem, ".json">>].ok
    /\ Old(t - fs[<<stem, ".json">>].timestamp, max_age)

\* clear_old_cache(cache_dir, max_age): the directory it leaves and the
\* count it logs.  It returns nothing, and no exception leaves the loop.
clear_old_cache(fs, t, max_age) ==
    LET cleared == { stem \in PayloadStems(fs) : Clears(fs, t, stem, max_age) }
        unlinked == { <<stem, ".tif">> : stem \in cleared }
                        \cup { <<stem, ".json">> : stem \in cleared }
    IN [files   |-> [path \in DOMAIN fs \ unlinked |-> fs[path]],
        raised  |-> FALSE,
        cleared |-> Cardinality(cleared)]

\* What json.dump wrote for a metadata record.
JsonText(metadata) ==
    "{\"url\": \"" \o metadata.url \o "\", \"timestamp\": "
        \o ToString(metadata.timestamp) \o ", \"size\": "
        \o ToString(metadata.size) \o "}"

\* file_path.stat().st_size: a payload has the size download_file records
\* for it (line 78), a sidecar the length of its text; a sidecar whose dump
\* failed was left empty by open(metadata_file, 'w').
st_size(fs, path) ==
    IF path[2] = ".tif"
    THEN Len(fs[path].data)
    ELSE IF fs[path].ok THEN Len(JsonText(fs[path])) ELSE 0

RECURSIVE SumOfSizes(_, _)
SumOfSizes(fs, paths) ==
    IF paths = {}
    THEN 0
    ELSE LET path == CHOOSE q \in paths : TRUE
         IN st_size(fs, path) + SumOfSizes(fs, paths \ {path})

\* get_cache_size(cache_dir): cache_dir.glob("*") yields every file.
get_cache_size(fs) == SumOfSizes(fs, DOMAIN fs)

\* A caller sweeps the cache.
Sweep(max_age) ==
    LET r == clear_old_cache(files, now, max_age)
    IN /\ files' = r.files
       /\ call' = [NoCall EXCEPT !.op = "clear_old_cache", !.max_age = max_age,
                                 !.raised = r.raised, !.cleared = r.cleared]
       /\ UNCHANGED <<now, ticks, procs>>

\* A caller asks for the size of the cache.
Size ==
    /\ call' = [NoCall EXCEPT !.op = "get_cache_size",
                              !.total_size = get_cache_size(files)]
    /\ UNCHANGED <<files, now, ticks, procs>>

\* What one URL's entry can look like when a run starts: nothing, a payload
\* without sidecar (a killed download), a sidecar without payload, an
\* unreadable sidecar, or a complete entry stamped at time 0.
InitialEntries(url) ==
    { p \cup m :
        p \in {{}, {<<CacheFile(url), Payload(Body)>>}},
        m \in {{}, {<<MetadataFile(url), CorruptMetadata>>},
               {<<MetadataFile(url), Metadata(url, 0, Len(Body))>>}} }

\* The directory holding the given <<path, content>> pairs.
Directory(pairs) ==
    [path \in {pc2[1] : pc2 \in pairs} |->
        (CHOOSE pc2 \in pairs : pc2[1] = path)[2]]

InitialDirectories ==
    LET u1 == CHOOSE u \in Urls : TRUE
        u2 == CHOOSE u \in Urls : u # u1
    IN { Directory(e1 \cup e2) :
           e1 \in InitialEntries(u1), e2 \in InitialEntries(u2) }


CacheIdle ==
    /\ files = EmptyMap
    /\ now = 0
    /\ ticks = 0
    /\ call = NoCall
    /\ procs = NoProcs

(***************************************************************************)
(* cache_utils.py: download_file and get_cached_file called concurrently   *)
(*                                                                         *)
(* Each caller is a process of procs, which holds its position in the      *)
(* function and its locals.  A step is one file-system operation: an       *)
(* exists() test, an open (which creates or truncates), the write of one   *)
(* chunk, a stat, an unlink, the read of the sidecar.  A writer's handle   *)
(* writes at its own offset; it stays attached to the file while the file  *)
(* is not unlinked, and writes through a detached handle are not seen.     *)
(* The code takes no lock and renames nothing.                             *)
(***************************************************************************)

\* The processes calling download_file and get_cached_file.
Writers == {"writer1", "writer2"}
Readers == {"reader"}

\* The URL all of them are called with.
SharedUrl == get_raster_url("KEN", "M", "0_4")

\* A process before its call: no handle, no metadata read, nothing returned.
Idle(position) ==
    [pc |-> position, offset |-> 0, attached |-> FALSE, size |-> 0,
     metadata |-> CorruptMetadata, result |-> None, payload |-> None]

\* The process p is at the given position.
At(p, position) == p \in DOMAIN procs /\ procs[p].pc = position

\* The process p goes on with the given locals.
Goes(p, locals) == procs' = [procs EXCEPT ![p] = locals]

\* What a write of chunk k through a handle at offset k - 1 leaves in a
\* file: bytes between the end of the file and the offset are a hole.
WriteAt(data, k) ==
    [i \in 1..(IF Len(data) > k THEN Len(data) ELSE k) |->
        IF i = k THEN Body[k] ELSE IF i <= Len(data) THEN data[i] ELSE "hole"]

\* Lines 64-65: requests.get(url, stream=True) and raise_for_status().
DownloadRequest(p, ok) ==
    /\ At(p, "request")
    /\ Goes(p, [procs[p] EXCEPT !.pc = IF ok THEN "open_payload" ELSE "except"])
    /\ UNCHANGED <<files, now, ticks, call>>

\* Line 68: open(cache_file, 'wb') creates the payload or truncates it.
DownloadOpenPayload(p, ok) ==
    /\ At(p, "open_payload")
    /\ IF ok
       THEN /\ files' = Put(files, CacheFile(SharedUrl), Payload(<<>>))
            /\ Goes(p, [procs[p] EXCEPT !.pc = "write", !.offset = 0,
                                        !.attached = TRUE])
       ELSE /\ Goes(p, [procs[p] EXCEPT !.pc = "except"])
            /\ UNCHANGED files
    /\ UNCHANGED <<now, ticks, call>>

\* Lines 69-70: f.write(chunk) for the next chunk of the response.
DownloadWriteChunk(p, ok) ==
    /\ At(p, "write")
    /\ procs[p].offset < Len(Body)
    /\ IF ok
       THEN /\ files' = IF procs[p].attached
                        THEN Put(files, CacheFile(SharedUrl),
                                 Payload(WriteAt(files[CacheFile(SharedUrl)].data,
                                                 procs[p].offset + 1)))
                        ELSE files
            /\ Goes(p, [procs[p] EXCEPT !.offset = @ + 1])
       ELSE /\ Goes(p, [procs[p] EXCEPT !.pc = "except"])
            /\ UNCHANGED files
    /\ UNCHANGED <<now, ticks, call>>

\* Lines 73-77: the payload is closed and cache_file.stat().st_size read,
\* which raises when the file is gone.
DownloadStat(p) ==
    /\ At(p, "write")
    /\ procs[p].offset = Len(Body)
    /\ IF Exists(files, CacheFile(SharedUrl))
       THEN Goes(p, [procs[p] EXCEPT !.pc = "open_metadata",
                                     !.size = Len(files[CacheFile(SharedUrl)].data)])
       ELSE Goes(p, [procs[p] EXCEPT !.pc = "except"])
    /\ UNCHANGED <<files, now, ticks, call>>

\* Line 80: open(metadata_file, 'w') creates the sidecar or truncates it.
DownloadOpenMetadata(p, ok) ==
    /\ At(p, "open_metadata")
    /\ IF ok
       THEN /\ files' = Put(files, MetadataFile(SharedUrl), CorruptMetadata)
            /\ Goes(p, [procs[p] EXCEPT !.pc = "dump"])
       ELSE /\ Goes(p, [procs[p] EXCEPT !.pc = "except"])
            /\ UNCHANGED files
    /\ UNCHANGED <<now, ticks, call>>

\* Lines 81-84: json.dump(metadata, f), the sidecar is closed and the path
\* returned.
DownloadDump(p, ok) ==
    /\ At(p, "dump")
    /\ IF ok
       THEN /\ files' = Put(files, MetadataFile(SharedUrl),
                            Metadata(SharedUrl, now, procs[p].size))
            /\ Goes(p, [procs[p] EXCEPT !.pc = "returned",
                                        !.result = CacheFile(SharedUrl)])
       ELSE /\ Goes(p, [procs[p] EXCEPT !.pc = "except"])
            /\ UNCHANGED files
    /\ UNCHANGED <<now, ticks, call>>

\* Lines 86-91: the except clause unlinks the payload if it exists, whoever
\* wrote it, and re-raises.  Open handles on the file become detached.
DownloadExcept(p) ==
    /\ At(p, "except")
    /\ IF Exists(files, CacheFile(SharedUrl))
       THEN /\ files' = Remove(files, CacheFile(SharedUrl))
            /\ procs' = [q \in DOMAIN procs |->
                            IF q = p
                            THEN [procs[q] EXCEPT !.pc = "raised",
                                                  !.attached = FALSE]
                            ELSE [procs[q] EXCEPT !.attached = FALSE]]
       ELSE /\ Goes(p, [procs[p] EXCEPT !.pc = "raised"])
            /\ UNCHANGED files
    /\ UNCHANGED <<now, ticks, call>>

\* Line 31: cache_file.exists() ...
LookupPayloadExists(p) ==
    /\ At(p, "payload_exists")
    /\ IF Exists(files, CacheFile(SharedUrl))
       THEN Goes(p, [procs[p] EXCEPT !.pc = "metadata_exists"])
       ELSE Goes(p, [procs[p] EXCEPT !.pc = "returned"])
    /\ UNCHANGED <<files, now, ticks, call>>

\* Line 31: ... and metadata_file.exists()
LookupMetadataExists(p) ==
    /\ At(p, "metadata_exists")
    /\ IF Exists(files, MetadataFile(SharedUrl))
       THEN Goes(p, [procs[p] EXCEPT !.pc = "load"])
       ELSE Goes(p, [procs[p] EXCEPT !.pc = "returned"])
    /\ UNCHANGED <<files, now, ticks, call>>

\* Lines 33-34: the sidecar is opened and json.load reads it; a sidecar
\* that is gone or cannot be read raises, which line 42 catches.
LookupLoad(p) ==
    /\ At(p, "load")
    /\ IF Exists(files, MetadataFile(SharedUrl)) /\ files[MetadataFile(SharedUrl)].ok
       THEN Goes(p, [procs[p] EXCEPT !.pc = "check",
                                     !.metadata = files[MetadataFile(SharedUrl)]])
       ELSE Goes(p, [procs[p] EXCEPT !.pc = "returned"])
    /\ UNCHANGED <<files, now, ticks, call>>

\* Lines 37-41: the age test and the return of the path.  payload is the
\* file the returned path names at that moment, None when there is none.
LookupCheck(p, max_age) ==
    /\ At(p, "check")
    /\ IF Fresh(now - procs[p].metadata.timestamp, max_age)
       THEN Goes(p, [procs[p] EXCEPT
                        !.pc = "returned",
                        !.result = CacheFile(SharedUrl),
                        !.payload = IF Exists(files, CacheFile(SharedUrl))
                                    THEN Some(files[CacheFile(SharedUrl)])
                                    ELSE None])
       ELSE Goes(p, [procs[p] EXCEPT !.pc = "returned"])
    /\ UNCHANGED <<files, now, ticks, call>>

\* The reader's next get_cached_file call.
LookupAgain(p) ==
    /\ p \in Readers
    /\ At(p, "returned")
    /\ Goes(p, Idle("payload_exists"))
    /\ UNCHANGED <<files, now, ticks, call>>

(***************************************************************************)
(* summarize_by_district.py: zonal aggregation                             *)
(*                                                                         *)
(* A raster is the row-major flattening of its height x width array, a     *)
(* sequence of cell values.  A district's geometry is represented by the   *)
(* set of cell indices whose centres lie inside it, which is what          *)
(* rasterio's geometry_mask computes from the polygon and the transform.   *)
(* profile.nodata is {} for None and {v} for the sentinel v.               *)
(***************************************************************************)

\* Cells of the enumerated rasters (height 1, width NumCells).
NumCells == 3

\* The nodata sentinel of the rasters (the tests' profile).
NODATA == -9999

\* The values a cell of an enumerated raster holds.
CellValues == {NODATA, 0, 1, 2}

Profile(height, width, nodata) ==
    [height |-> height, width |-> width, nodata |-> nodata]

District(district_id, district, region, geometry) ==
    [district_id |-> district_id, district |-> district, region |-> region,
     geometry |-> geometry]

\* geometry_mask(..., invert=True) as a bug would have it: invert forgotten.
GeometryMaskNotInverted(geometry, profile) ==
    [i \in 1..(profile.height * profile.width) |-> i \notin geometry]

\* geometry_mask(geom, out_shape, transform, invert=True): True inside.
geometry_mask(geometry, profile) ==
    [i \in 1..(profile.height * profile.width) |-> i \in geometry]

RECURSIVE TakeMasked(_, _, _)
TakeMasked(data, mask, i) ==
    IF i > Len(data)
    THEN <<>>
    ELSE (IF mask[i] THEN <<data[i]>> ELSE <<>>) \o TakeMasked(data, mask, i + 1)

\* raster_data[district_mask]: the masked cells, in row-major order.
DistrictData(data, mask) == TakeMasked(data, mask, 1)

\* Lines 72-75 as a bug would have it: nodata cells are not removed.
ValidDataUnfiltered(district_data, profile) == district_data

\* Lines 72-75: district_data[district_data != nodata] when nodata is set.
ValidData(district_data, profile) ==
    LET IsData(v) == v \notin profile.nodata
    IN IF profile.nodata # {}
       THEN SelectSeq(district_data, IsData)
       ELSE district_data

\* np.sum(valid_data) if len(valid_data) > 0 else 0
TotalPopulation(valid_data) ==
    IF Len(valid_data) > 0 THEN SeqSum(valid_data) ELSE 0

\* One iteration of the loop over districts_gdf.iterrows(), lines 58-86.
SummarizeDistrict(district, data, profile) ==
    LET district_mask == geometry_mask(district.geometry, profile)
        valid_data == ValidData(DistrictData(data, district_mask), profile)
    IN [district_id |-> district.district_id,
        district    |-> district.district,
        region      |-> district.region,
        population  |-> TotalPopulation(valid_data),
        pixel_count |-> Len(valid_data)]

\* A geometry rasterio cannot rasterize (None or empty): geometry_mask
\* raises ValueError on it.  It covers no cell of any raster.
Degenerate == {0}

\* Lines 58-90: the district is processed unless its iteration raises, in
\* which case the except clause logs it and continues with the next.
Processed(district) == district.geometry # Degenerate

\* Line 92, gpd.GeoDataFrame(results, geometry=districts_gdf.geometry): the
\* geometry column is aligned with the result rows on the index, which is
\* the position: row i gets the geometry of the i-th boundary district.  A
\* frame built from no rows takes the index of the geometry column, and
\* holds one row per boundary district with the geometry alone.
GeoDataFrame(results, geometry) ==
    IF results = <<>>
    THEN [i \in 1..Len(geometry) |-> [geometry |-> geometry[i]]]
    ELSE [i \in 1..Len(results) |-> results[i] @@ [geometry |-> geometry[i]]]

\* summarize_raster_by_districts(raster_data, profile, country): None when
\* the country is not in the registry, else one row per processed district
\* in boundary order, with the boundary geometry attached by index.
summarize_raster_by_districts(boundaries, data, profile, country) ==
    IF country \notin DOMAIN boundaries
    THEN [none |-> TRUE, rows |-> <<>>]
    ELSE LET districts_gdf == boundaries[country]
             processed == SelectSeq(districts_gdf, Processed)
             results == [i \in 1..Len(processed) |->
                            SummarizeDistrict(processed[i], data, profile)]
         IN [none |-> FALSE,
             rows |-> GeoDataFrame(results,
                                   [i \in 1..Len(districts_gdf) |->
                                       districts_gdf[i].geometry])]

\* The summarizer has not been called.
NotSummarized == [called |-> FALSE, country |-> "", none |-> FALSE, rows |-> <<>>]

\* One call of summarize_raster_by_districts on the raster at hand.
Summarize(country) ==
    /\ ~zonal.called
    /\ LET r == summarize_raster_by_districts(admin_boundaries, raster_info.data,
                                              raster_info.profile, country)
       IN zonal' = [called |-> TRUE, country |-> country, none |-> r.none,
                    rows |-> r.rows]
    /\ UNCHANGED <<raster_info, admin_boundaries>>

\* The boundary sets the summarizer is exercised with: two districts of one
\* country, each covering any set of cells.
EnumeratedBoundaries ==
    { [c \in {"KEN"} |->
          <<District("KEN.1.1_1", "Nairobi", "Nairobi", g1),
            District("KEN.1.2_1", "Mombasa", "Coast", g2)>>] :
        g1 \in SUBSET (1..NumCells), g2 \in SUBSET (1..NumCells) }

EnumeratedRasters ==
    { [data |-> d, profile |-> Profile(1, NumCells, nodata)] :
        d \in [1..NumCells -> CellValues], nodata \in {{}, {NODATA}} }

\* Districts of a boundary set at most, where sets of any size are enumerated.
MaxDistricts == 2

\* The geometries of those districts: two disjoint masks and a degenerate one.
DistrictGeometries == {{1}, {2, NumCells}, Degenerate}

\* The boundary sets of one country with 0..MaxDistricts districts, any of
\* which may have a degenerate geometry.
FaultyBoundaries ==
    { [c \in {"KEN"} |->
          [i \in 1..n |->
              District("KEN." \o ToString(i) \o "_1", "District " \o ToString(i),
                       "Region " \o ToString((i + 1) \div 2), g[i])]] :
        n \in 0..MaxDistricts, g \in [1..MaxDistricts -> DistrictGeometries] }

\* The rasters those boundary sets are summarized on.
FaultyRasters ==
    { [data |-> d, profile |-> Profile(1, NumCells, {NODATA})] :
        d \in [1..NumCells -> {NODATA, 1, 2}] }

\* tests/test_summarize_by_district.py: a 10 x 10 raster of zeros with a
\* 3 x 3 block of 100 at rows 2-4, columns 2-4 and a 3 x 3 block of 200 at
\* rows 6-8, columns 6-8 (0-based), and the two masks covering the blocks.
ScenarioBlock(first) ==
    { 10 * r + c + 1 : r \in first..(first + 2), c \in first..(first + 2) }

ScenarioRaster ==
    [data |-> [i \in 1..100 |->
                  IF i \in ScenarioBlock(2) THEN 100
                  ELSE IF i \in ScenarioBlock(6) THEN 200 ELSE 0],
     profile |-> Profile(10, 10, {NODATA})]

ScenarioBoundaries ==
    [c \in {"TEST"} |->
        <<District("DIST_1", "District 1", "Region A", ScenarioBlock(2)),
          District("DIST_2", "District 2", "Region B", ScenarioBlock(6))>>]

(***************************************************************************)
(* summarize_by_district.py: the combined table and the indicators         *)
(*                                                                         *)
(* A table is the sequence of its rows.  pandas' groupby yields the groups *)
(* in sorted key order; KeyOrder lists the group keys of the model in that *)
(* order.  A quotient of two sums is kept exact, as [num, den].            *)
(***************************************************************************)

Row(country, sex, age_group, district_id, district, region, population) ==
    [country |-> country, sex |-> sex, age_group |-> age_group,
     district_id |-> district_id, district |-> district, region |-> region,
     population |-> population]

\* The (country, district_id, district) keys of the model, sorted.
KeyOrder ==
    << <<"KEN", "KEN.1.1_1", "Nairobi">>,
       <<"KEN", "KEN.1.2_1", "Mombasa">>,
       <<"UGA", "UGA.1.1_1", "Kampala">> >>

GroupKey(row) == <<row.country, row.district_id, row.district>>

\* Lines 178-182 as a bug would have it: a band of AGE_GROUPS left out.
age_bins_without_80_plus ==
    [children    |-> {"0_4", "5_9", "10_14"},
     working_age |-> {"15_19", "20_24", "25_29", "30_34", "35_39", "40_44",
                      "45_49", "50_54", "55_59"},
     elderly     |-> {"60_64", "65_69", "70_74", "75_79"}]

\* Lines 178-182.
age_bins ==
    [children    |-> {"0_4", "5_9", "10_14"},
     working_age |-> {"15_19", "20_24", "25_29", "30_34", "35_39", "40_44",
                      "45_49", "50_54", "55_59"},
     elderly     |-> {"60_64", "65_69", "70_74", "75_79", "80_plus"}]

\* rows['population'].sum()
PopulationSum(rows) == SeqSum([i \in 1..Len(rows) |-> rows[i].population])

Ratio(num, den) == [num |-> num, den |-> den]

\* Line 198 as a bug would have it: the division is not guarded.
SexRatioUnguarded(male_pop, female_pop) == Ratio(male_pop, female_pop)

\* Line 198: male_pop / female_pop if female_pop > 0 else 0.
SexRatio(male_pop, female_pop) ==
    IF female_pop > 0 THEN Ratio(male_pop, female_pop) ELSE Ratio(0, 1)

\* The body of the loop over the groups, lines 187-211, for one group.
IndicatorRow(key, group) ==
    LET Children(r) == r.age_group \in age_bins.children
        Working(r)  == r.age_group \in age_bins.working_age
        Elderly(r)  == r.age_group \in age_bins.elderly
        Male(r)     == r.sex = "M"
        Female(r)   == r.sex = "F"
        total_pop    == PopulationSum(group)
        children_pop == PopulationSum(SelectSeq(group, Children))
        working_pop  == PopulationSum(SelectSeq(group, Working))
        elderly_pop  == PopulationSum(SelectSeq(group, Elderly))
        male_pop     == PopulationSum(SelectSeq(group, Male))
        female_pop   == PopulationSum(SelectSeq(group, Female))
    IN [country                |-> key[1],
        district_id            |-> key[2],
        district               |-> key[3],
        total_population       |-> total_pop,
        child_percentage       |-> Ratio(children_pop * 100, total_pop),
        working_age_percentage |-> Ratio(working_pop * 100, total_pop),
        elderly_percentage     |-> Ratio(elderly_pop * 100, total_pop),
        sex_ratio              |-> SexRatio(male_pop, female_pop),
        male_population        |-> male_pop,
        female_population      |-> female_pop]

\* Line 189: if total_pop > 0.
Emits(total_pop) == total_pop > 0

\* The rows of one group, in table order.
GroupOf(table, key) ==
    LET InGroup(r) == GroupKey(r) = key IN SelectSeq(table, InGroup)

\* The group keys of a table, sorted.
GroupKeys(table) ==
    LET Present(key) == \E i \in 1..Len(table) : GroupKey(table[i]) = key
    IN SelectSeq(KeyOrder, Present)

\* calculate_demographic_indicators(combined_summary).  A table without
\* rows is pd.DataFrame([]), which has no columns: groupby on 'country'
\* raises KeyError (line 173).
calculate_demographic_indicators(table) ==
    IF table = <<>>
    THEN [called |-> TRUE, raised |-> TRUE, rows |-> <<>>]
    ELSE LET keys == GroupKeys(table)
             Kept(key) == Emits(IndicatorRow(key, GroupOf(table, key)).total_population)
             kept == SelectSeq(keys, Kept)
         IN [called |-> TRUE, raised |-> FALSE,
             rows |-> [i \in 1..Len(kept) |->
                          IndicatorRow(kept[i], GroupOf(table, kept[i]))]]

NotCalculated == [called |-> FALSE, raised |-> FALSE, rows |-> <<>>]

\* One call of calculate_demographic_indicators on the table at hand.
Calculate ==
    /\ ~demographic_indicators.called
    /\ demographic_indicators' = calculate_demographic_indicators(combined_summary)
    /\ UNCHANGED combined_summary

\* Rows of the enumerated tables at most.
MaxRows == 2

\* The rows of the enumerated tables: two districts, both sexes, one age
\* band of each bin and one that is in no bin.
EnumeratedRows ==
    { Row("KEN", sex, age_group, d[1], d[2], d[3], population) :
        sex \in {"M", "F"},
        age_group \in {"0_4", "15_19", "80_plus", "80+"},
        d \in {<<"KEN.1.1_1", "Nairobi", "Nairobi">>,
               <<"KEN.1.2_1", "Mombasa", "Coast">>},
        population \in {0, 1, 2} }

EnumeratedTables ==
    UNION { [1..n -> EnumeratedRows] : n \in 0..MaxRows }

(***************************************************************************)
(* load_rasters.py, extract_metadata.py and run_pipeline.py: the run       *)
(*                                                                         *)
(* An optional Python value is None (<<>>) or Some(v) (<<v>>).  A nested   *)
(* dict country -> sex -> age_group is a function of functions; Python     *)
(* iterates it in insertion order, which is the order of the request.      *)
(***************************************************************************)

\* Age groups of a request at most (a prefix of AGE_GROUPS).
MaxAgeGroups == 2

\* The arguments run_pipeline is called with.
Requests ==
    { [countries   |-> SubSeq(COUNTRIES, 1, nc),
       sex_options |-> SEX_OPTIONS,
       age_groups  |-> SubSeq(AGE_GROUPS, 1, na)] :
        nc \in 0..Len(COUNTRIES), na \in 0..MaxAgeGroups }

\* The content of the GADM boundary files, with the columns renamed
\* (lines 21-27): Kenya has two districts, Uganda one.
GadmBoundaries ==
    [country \in GADM_FILES |->
        IF country = "KEN"
        THEN <<District("KEN.1.1_1", "Nairobi", "Nairobi", {1}),
               District("KEN.1.2_1", "Mombasa", "Coast", {2, 3})>>
        ELSE <<District("UGA.1.1_1", "Kampala", "Kampala", {1, 2})>>]

\* The raster the server holds for a unit.
RemoteRaster(country, sex, age_group) ==
    [data    |-> IF country = "UGA" THEN <<0, NODATA, 1>>
                 ELSE IF sex = "M" THEN <<1, 2, NODATA>>
                 ELSE <<2, 0, 1>>,
     profile |-> Profile(1, 3, {NODATA})]

\* load_admin_boundaries as a bug would have it: the first file that cannot
\* be read ends the loading, and the registry stays as it was.
load_admin_boundaries_or_nothing(readable) ==
    IF GADM_FILES \subseteq readable THEN GadmBoundaries ELSE EmptyMap

\* DistrictSummarizer.load_admin_boundaries: a country whose file cannot be
\* read is logged and left out.
load_admin_boundaries(readable) ==
    [country \in GADM_FILES \cap readable |-> GadmBoundaries[country]]

\* How one load_raster call goes.
Fates == {"ok", "download_error", "decode_error"}

\* RasterLoader.load_raster, as batch_load_rasters sees it: data and profile,
\* or None for both when anything raised (lines 59-61).
load_raster(country, sex, age_group, fate) ==
    IF fate = "ok"
    THEN [data    |-> Some(RemoteRaster(country, sex, age_group).data),
          profile |-> Some(RemoteRaster(country, sex, age_group).profile)]
    ELSE [data |-> None, profile |-> None]

\* The nested loops of batch_load_rasters, lines 119-123, unrolled: the
\* (country, sex, age_group) of the k-th load_raster call.
Units(req) ==
    LET ns == Len(req.sex_options)
        na == Len(req.age_groups)
    IN [k \in 1..(Len(req.countries) * ns * na) |->
           <<req.countries[((k - 1) \div (ns * na)) + 1],
             req.sex_options[(((k - 1) \div na) % ns) + 1],
             req.age_groups[((k - 1) % na) + 1]>>]

\* Line 125 as a bug would have it: the first failure ends the batch.
KeepsUntilFailure(done, k) == \A i \in 1..k : done[i].result.data # None

\* Line 125: if data is not None.
Keeps(done, k) == done[k].result.data # None

\* batch_load_rasters' return value after the calls in done: a dict per
\* country and sex (lines 120, 122) holding the units that loaded.
batch_load_rasters(req, done) ==
    [country \in Range(req.countries) |->
        [sex \in Range(req.sex_options) |->
            LET kept == { k \in 1..Len(done) :
                            /\ done[k].unit[1] = country
                            /\ done[k].unit[2] = sex
                            /\ Keeps(done, k) }
            IN [age_group \in { done[k].unit[3] : k \in kept } |->
                   LET k == CHOOSE k \in kept : done[k].unit[3] = age_group
                   IN done[k].result]]]

\* The units that have an entry in a nested mapping, in iteration order.
EntriesOf(nested, req) ==
    LET Present(u) == /\ u[1] \in DOMAIN nested
                      /\ u[2] \in DOMAIN nested[u[1]]
                      /\ u[3] \in DOMAIN nested[u[1]][u[2]]
    IN SelectSeq(Units(req), Present)

Entry(nested, u) == nested[u[1]][u[2]][u[3]]

\* f"{country}_{sex}_{age_group}"
UnitName(u) == u[1] \o "_" \o u[2] \o "_" \o u[3]

\* create_metadata_summary(raster_data)
create_metadata_summary(data, req) ==
    LET entries == EntriesOf(data, req)
        Loaded(u) == Entry(data, u).data # None
        Failed(u) == Entry(data, u).data = None
        loaded == SelectSeq(entries, Loaded)
        failed == SelectSeq(entries, Failed)
    IN [total_rasters  |-> Len(loaded),
        countries      |-> DOMAIN data,
        age_groups     |-> { loaded[i][3] : i \in 1..Len(loaded) },
        failed_rasters |-> [i \in 1..Len(failed) |-> UnitName(failed[i])],
        spatial_info   |->
            [country \in { loaded[i][1] : i \in 1..Len(loaded) } |->
                LET first == CHOOSE i \in 1..Len(loaded) :
                                /\ loaded[i][1] = country
                                /\ \A j \in 1..(i - 1) : loaded[j][1] # country
                IN Entry(data, loaded[first]).profile[1]]]

NoSummary ==
    [total_rasters |-> 0, countries |-> {}, age_groups |-> {},
     failed_rasters |-> <<>>, spatial_info |-> EmptyMap]

\* batch_summarize_rasters(raster_data): a dict per country and sex holding
\* the summary of every loaded raster whose country has boundaries.
batch_summarize_rasters(boundaries, data) ==
    [country \in DOMAIN data |->
        [sex \in DOMAIN data[country] |->
            LET sex_data == data[country][sex]
                Summary(age_group) ==
                    summarize_raster_by_districts(
                        boundaries, sex_data[age_group].data[1],
                        sex_data[age_group].profile[1], country)
            IN [age_group \in { a \in DOMAIN sex_data :
                                  /\ sex_data[a].data # None
                                  /\ ~Summary(a).none } |->
                   Summary(age_group).rows]]]

RECURSIVE Flatten(_)
Flatten(seqs) == IF seqs = <<>> THEN <<>> ELSE Head(seqs) \o Flatten(Tail(seqs))

\* Lines 147-158 as a bug would have it: only the first district row of an
\* entry is recorded.
create_combined_summary_first_rows(summaries, req) ==
    LET entries == EntriesOf(summaries, req)
    IN Flatten([k \in 1..Len(entries) |->
                   LET u == entries[k]
                       district_gdf == Entry(summaries, u)
                   IN [i \in 1..(IF Len(district_gdf) = 0 THEN 0 ELSE 1) |->
                          Row(u[1], u[2], u[3], district_gdf[i].district_id,
                              district_gdf[i].district, district_gdf[i].region,
                              district_gdf[i].population)]])

RECURSIVE str_replace(_, _, _)
\* str.replace(old, new) for a one-character old.
str_replace(s, old, new) ==
    IF s = ""
    THEN ""
    ELSE (IF SubSeq(s, 1, 1) = old THEN new ELSE SubSeq(s, 1, 1))
             \o str_replace(SubSeq(s, 2, Len(s)), old, new)

\* utils.format_age_group_display: the name of an age group for display.
\* Nothing in run_pipeline or the data pipeline calls it.
format_age_group_display(age_group) ==
    IF age_group = "80_plus" THEN "80+" ELSE str_replace(age_group, "_", "-")

\* create_combined_summary(summaries): one record per district row of every
\* entry, in iteration order; pd.DataFrame([]) when there is none.
create_combined_summary(summaries, req) ==
    LET entries == EntriesOf(summaries, req)
    IN Flatten([k \in 1..Len(entries) |->
                   LET u == entries[k]
                       district_gdf == Entry(summaries, u)
                   IN [i \in 1..Len(district_gdf) |->
                          Row(u[1], u[2], u[3], district_gdf[i].district_id,
                              district_gdf[i].district, district_gdf[i].region,
                              district_gdf[i].population)]])

\* run_pipeline, lines 36-37: RasterLoader() and DistrictSummarizer(), whose
\* constructor loads the boundaries; any of the files may be unreadable.
Construct(readable) ==
    /\ pc = "construct"
    /\ admin_boundaries' = load_admin_boundaries(readable)
    /\ pc' = "load"
    /\ UNCHANGED <<request, attempts, raster_data, metadata_summary,
                   district_summaries, outcome, tableVars>>

\* batch_load_rasters: the next load_raster call of the nested loops.
LoadNext(fate) ==
    /\ pc = "load"
    /\ Len(attempts) < Len(Units(request))
    /\ LET u == Units(request)[Len(attempts) + 1]
       IN attempts' = Append(attempts,
                             [unit |-> u,
                              result |-> load_raster(u[1], u[2], u[3], fate)])
    /\ UNCHANGED <<pc, request, raster_data, metadata_summary,
                   district_summaries, outcome, admin_boundaries, tableVars>>

\* batch_load_rasters returns (line 134) once the loops are through.
BatchLoadReturn ==
    /\ pc = "load"
    /\ Len(attempts) = Len(Units(request))
    /\ raster_data' = batch_load_rasters(request, attempts)
    /\ pc' = "metadata"
    /\ UNCHANGED <<request, attempts, metadata_summary, district_summaries,
                   outcome, admin_boundaries, tableVars>>

\* A step of run_pipeline that ends by writing an artifact goes on to the
\* next step, or the write raises and the run ends.
Written(written, next) ==
    IF written
    THEN pc' = next /\ UNCHANGED outcome
    ELSE pc' = "failed" /\ outcome' = "OutputWriteFailure"

\* Step 2, lines 49-55: create_metadata_summary, save_json and
\* export_metadata_to_csv.
ExtractMetadata(written) ==
    /\ pc = "metadata"
    /\ metadata_summary' = create_metadata_summary(raster_data, request)
    /\ Written(written, "summarize")
    /\ UNCHANGED <<request, attempts, raster_data, district_summaries,
                   admin_boundaries, tableVars>>

\* Step 3, line 59: batch_summarize_rasters.
SummarizeAll ==
    /\ pc = "summarize"
    /\ district_summaries' = batch_summarize_rasters(admin_boundaries, raster_data)
    /\ pc' = "combine"
    /\ UNCHANGED <<request, attempts, raster_data, metadata_summary, outcome,
                   admin_boundaries, tableVars>>

\* Step 4, lines 63-64: create_combined_summary and save_dataframe.
Combine(written) ==
    /\ pc = "combine"
    /\ combined_summary' = create_combined_summary(district_summaries, request)
    /\ Written(written, "indicators")
    /\ UNCHANGED <<request, attempts, raster_data, metadata_summary,
                   district_summaries, admin_boundaries, demographic_indicators>>

\* Step 5, lines 68-69: calculate_demographic_indicators, whose exception
\* nothing catches, and save_dataframe.
Indicators(written) ==
    /\ pc = "indicators"
    /\ LET r == calculate_demographic_indicators(combined_summary)
       IN /\ demographic_indicators' = r
          /\ IF r.raised
             THEN pc' = "failed" /\ outcome' = "KeyError"
             ELSE Written(written, "results")
    /\ UNCHANGED <<request, attempts, raster_data, metadata_summary,
                   district_summaries, admin_boundaries, combined_summary>>

\* Lines 72-86: the results are assembled, saved and returned.
ReturnResults(written) ==
    /\ pc = "results"
    /\ IF written
       THEN pc' = "done" /\ outcome' = "returned"
       ELSE pc' = "failed" /\ outcome' = "OutputWriteFailure"
    /\ UNCHANGED <<request, attempts, raster_data, metadata_summary,
                   district_summaries, admin_boundaries, tableVars>>

(***************************************************************************)
(* summarize_by_district.py: the registry and coordinate reference systems *)
(*                                                                         *)
(* A boundary set has a coordinate reference system, carried here by each  *)
(* district next to its geometry; a grid's is profile['crs'].  A geometry  *)
(* is the set of cells it covers in the frame of its own system, so it     *)
(* masks the right cells of a grid only once it is in the grid's system.   *)
(* self.admin_boundaries[country] is a reference to the stored frame: an   *)
(* operation on it in place would change the registry, while to_crs        *)
(* returns a new frame.                                                    *)
(***************************************************************************)

\* The coordinate reference systems of boundary files and grids.
Crs == {"EPSG:4326", "EPSG:3857"}

\* A geometry's cells in another system's frame: the frames of the two
\* systems are mirror images of each other.
Reproject(geometry, from, to) ==
    IF from = to THEN geometry ELSE { NumCells + 1 - i : i \in geometry }

\* districts_gdf.crs
FrameCrs(districts_gdf) == districts_gdf[1].crs

\* districts_gdf.to_crs(crs): a new frame with every geometry reprojected.
to_crs(districts_gdf, crs) ==
    [i \in 1..Len(districts_gdf) |->
        [districts_gdf[i] EXCEPT
            !.geometry = Reproject(@, districts_gdf[i].crs, crs),
            !.crs = crs]]

\* Lines 52-53 as a bug would have them: to_crs(..., inplace=True) on the
\* stored frame.
EnsureSameCrsInPlace(stored, crs) ==
    [stored |-> to_crs(stored, crs), districts_gdf |-> to_crs(stored, crs)]

\* Lines 49-53: districts_gdf refers to the stored frame and is rebound to
\* the frame to_crs returns when the systems differ; the stored frame is
\* not written to.
EnsureSameCrs(stored, crs) ==
    [stored        |-> stored,
     districts_gdf |-> IF FrameCrs(stored) # crs
                       THEN to_crs(stored, crs)
                       ELSE stored]

\* summarize_raster_by_districts with the systems: the registry the call
\* leaves and what it returns.
summarize_call(boundaries, data, profile, country) ==
    IF country \notin DOMAIN boundaries
    THEN [admin_boundaries |-> boundaries,
          result |-> summarize_raster_by_districts(boundaries, data, profile,
                                                   country)]
    ELSE LET e == EnsureSameCrs(boundaries[country], profile.crs)
         IN [admin_boundaries |-> [boundaries EXCEPT ![country] = e.stored],
             result |-> summarize_raster_by_districts(
                            [boundaries EXCEPT ![country] = e.districts_gdf],
                            data, profile, country)]

RECURSIVE RegistryAfter(_, _, _)
\* The registry after batch_summarize_rasters' calls for the given units.
RegistryAfter(boundaries, data, units) ==
    IF units = <<>>
    THEN boundaries
    ELSE LET u == Head(units)
             r == summarize_call(boundaries, Entry(data, u).data[1],
                                 Entry(data, u).profile[1], u[1])
         IN RegistryAfter(r.admin_boundaries, data, Tail(units))

\* batch_summarize_rasters(raster_data) with the systems, the units being
\* the entries of raster_data in iteration order.
batch_call(boundaries, data, units) ==
    LET IndexOf(u) == CHOOSE k \in 1..Len(units) : units[k] = u
        ResultOf(u) ==
            summarize_call(RegistryAfter(boundaries, data,
                                         SubSeq(units, 1, IndexOf(u) - 1)),
                           Entry(data, u).data[1], Entry(data, u).profile[1],
                           u[1]).result
    IN [admin_boundaries |-> RegistryAfter(boundaries, data, units),
        summaries |->
            [country \in DOMAIN data |->
                [sex \in DOMAIN data[country] |->
                    [age_group \in { a \in DOMAIN data[country][sex] :
                                       ~ResultOf(<<country, sex, a>>).none } |->
                        ResultOf(<<country, sex, age_group>>).rows]]]]

\* The boundary files' content in a system: GadmBoundaries are the cells in
\* the frame of EPSG:4326.
BoundariesIn(crs) ==
    [country \in DOMAIN GadmBoundaries |->
        to_crs([i \in 1..Len(GadmBoundaries[country]) |->
                   GadmBoundaries[country][i] @@ [crs |-> "EPSG:4326"]],
               crs)]

\* The request whose rasters the registry is exercised with.
RegistryRequest ==
    [countries |-> COUNTRIES, sex_options |-> <<"M">>, age_groups |-> <<"0_4">>]

\* Those rasters loaded, as batch_load_rasters returns them, in a system.
RegistryRasterData(crs) ==
    [country \in Range(RegistryRequest.countries) |->
        [sex \in Range(RegistryRequest.sex_options) |->
            [age_group \in Range(RegistryRequest.age_groups) |->
                [data    |-> Some(RemoteRaster(country, sex, age_group).data),
                 profile |-> Some(RemoteRaster(country, sex, age_group).profile
                                      @@ [crs |-> crs])]]]]

\* A call of summarize_raster_by_districts on the raster at hand.
RegistrySummarize(country) ==
    /\ LET r == summarize_call(admin_boundaries, raster_info.data,
                               raster_info.profile, country)
       IN /\ admin_boundaries' = r.admin_boundaries
          /\ zonal' = [called |-> TRUE, country |-> country,
                       none |-> r.result.none, rows |-> r.result.rows]
    /\ UNCHANGED <<raster_info, tableVars, runVars>>

\* A call of batch_summarize_rasters on the loaded rasters.
RegistryBatch ==
    /\ LET r == batch_call(admin_boundaries,
                           RegistryRasterData(raster_info.profile.crs),
                           Units(RegistryRequest))
       IN /\ admin_boundaries' = r.admin_boundaries
          /\ district_summaries' = r.summaries
    /\ UNCHANGED <<pc, request, attempts, raster_data, metadata_summary, outcome,
                   zonalVars, tableVars>>

\* A call of create_combined_summary, lines 142-160, which reads nothing but
\* its argument.
RegistryCombine ==
    /\ combined_summary' = create_combined_summary(district_summaries,
                                                   RegistryRequest)
    /\ UNCHANGED <<admin_boundaries, demographic_indicators, zonalVars, runVars>>

\* A call of calculate_demographic_indicators, lines 172-213, which reads
\* nothing but its argument.
RegistryCalculate ==
    /\ demographic_indicators'
           = calculate_demographic_indicators(combined_summary)
    /\ UNCHANGED <<admin_boundaries, combined_summary, zonalVars, runVars>>

(***************************************************************************)
(* extract_metadata.py: what a URL or a file name says about a raster      *)
(*                                                                         *)
(* Strings are strings, read character by character with SubSeq.           *)
(***************************************************************************)

CharAt(s, i) == SubSeq(s, i, i)

Digits == {"0", "1", "2", "3", "4", "5", "6", "7", "8", "9"}

LowerCase ==
    {"a", "b", "c", "d", "e", "f", "g", "h", "i", "j", "k", "l", "m",
     "n", "o", "p", "q", "r", "s", "t", "u", "v", "w", "x", "y", "z"}

\* c.upper() of one character.
UpperChar(c) ==
    CASE c = "a" -> "A" [] c = "b" -> "B" [] c = "c" -> "C" [] c = "d" -> "D"
      [] c = "e" -> "E" [] c = "f" -> "F" [] c = "g" -> "G" [] c = "h" -> "H"
      [] c = "i" -> "I" [] c = "j" -> "J" [] c = "k" -> "K" [] c = "l" -> "L"
      [] c = "m" -> "M" [] c = "n" -> "N" [] c = "o" -> "O" [] c = "p" -> "P"
      [] c = "q" -> "Q" [] c = "r" -> "R" [] c = "s" -> "S" [] c = "t" -> "T"
      [] c = "u" -> "U" [] c = "v" -> "V" [] c = "w" -> "W" [] c = "x" -> "X"
      [] c = "y" -> "Y" [] c = "z" -> "Z" [] OTHER -> c

RECURSIVE str_upper(_)
\* s.upper(), halves of the string at a time.
str_upper(s) ==
    IF Len(s) = 0
    THEN ""
    ELSE IF Len(s) = 1
         THEN UpperChar(s)
         ELSE str_upper(SubSeq(s, 1, Len(s) \div 2))
                  \o str_upper(SubSeq(s, Len(s) \div 2 + 1, Len(s)))

\* needle in s
Contains(s, needle) ==
    \E i \in 1..(Len(s) - Len(needle) + 1) :
        SubSeq(s, i, i + Len(needle) - 1) = needle

\* Every character of s is in the class.
AllIn(s, class) == \A i \in 1..Len(s) : CharAt(s, i) \in class

\* Path(filename).name: what follows the last "/".
PathName(filename) ==
    LET slashes == { i \in 1..Len(filename) : CharAt(filename, i) = "/" }
        last == IF slashes = {} THEN 0
                ELSE CHOOSE i \in slashes : \A j \in slashes : j <= i
    IN SubSeq(filename, last + 1, Len(filename))

RECURSIVE int(_)
\* int(s) of a string of digits.
int(s) ==
    IF s = ""
    THEN 0
    ELSE LET d == CharAt(s, Len(s))
             v == CHOOSE n \in 0..9 : ToString(n) = d
         IN 10 * int(SubSeq(s, 1, Len(s) - 1)) + v

\* re.match(r'^([MF])_(\d+)_(\d+|[a-z_]+)\.tif$', basename): the groups of
\* the match, or None.  \d+ is followed by "_", so it is the whole run of
\* digits; group 3 is followed by ".tif" and the end, so it is all that
\* lies between.
FilenameMatch(basename) ==
    LET n == Len(basename)
        run == { k \in 1..(n - 2) : AllIn(SubSeq(basename, 3, 2 + k), Digits) }
        d == IF run = {} THEN 0 ELSE CHOOSE k \in run : \A j \in run : j <= k
        rest == SubSeq(basename, 4 + d, n - 4)
    IN IF /\ n >= 9
          /\ CharAt(basename, 1) \in {"M", "F"}
          /\ CharAt(basename, 2) = "_"
          /\ d >= 1
          /\ CharAt(basename, 3 + d) = "_"
          /\ SubSeq(basename, n - 3, n) = ".tif"
          /\ Len(rest) >= 1
          /\ (AllIn(rest, Digits) \/ AllIn(rest, LowerCase \cup {"_"}))
       THEN Some(<<CharAt(basename, 1), SubSeq(basename, 3, 2 + d), rest>>)
       ELSE None

\* Lines 34-37: an open-ended band is written with "+".
AgeGroupOf(age_start, age_end) ==
    IF age_end = "plus" THEN age_start \o "+" ELSE age_start \o "_" \o age_end

\* parse_filename(filename): the metadata, or None.
parse_filename(filename) ==
    LET basename == PathName(filename)
        match == FilenameMatch(basename)
    IN IF match = None
       THEN None
       ELSE Some([sex       |-> match[1][1],
                  age_start |-> int(match[1][2]),
                  age_end   |-> match[1][3],
                  age_group |-> AgeGroupOf(match[1][2], match[1][3]),
                  filename  |-> basename])

\* extract_country_from_url(url): the first /KEN/ or /UGA/ of url.upper().
extract_country_from_url(url) ==
    LET upper == str_upper(url)
        hits == { i \in 1..(Len(upper) - 4) :
                    SubSeq(upper, i, i + 4) \in {"/KEN/", "/UGA/"} }
    IN IF hits = {}
       THEN None
       ELSE LET first == CHOOSE i \in hits : \A j \in hits : i <= j
            IN Some(SubSeq(upper, first + 1, first + 3))

\* validate_metadata(metadata); the required fields are those of
\* parse_filename's result.
validate_metadata(metadata) ==
    IF metadata = None
    THEN FALSE
    ELSE /\ {"sex", "age_group", "age_start"} \subseteq DOMAIN metadata[1]
         /\ metadata[1].sex \in Range(SEX_OPTIONS)
         /\ \/ metadata[1].age_group \in Range(AGE_GROUPS)
            \/ \E ag \in Range(AGE_GROUPS) : Contains(metadata[1].age_group, ag)

\* Other names the helpers are called with (test_extract_metadata.py).
OtherFilenames ==
    {"invalid_filename.txt", "/path/to/data/F_15_19.tif", "M_0_4.tif",
     "https://example.com/data.tif"}

\* The helpers have not been called on the URL.
NotExtracted(country, sex, age_group, url) ==
    [called |-> FALSE, country |-> country, sex |-> sex,
     age_group |-> age_group, url |-> url,
     found |-> None, metadata |-> None, valid |-> FALSE]

\* The helpers called on the URL at hand.
ExtractFromUrl ==
    /\ ~url_info.called
    /\ url_info' = [url_info EXCEPT
                       !.called = TRUE,
                       !.found = extract_country_from_url(url_info.url),
                       !.metadata = parse_filename(url_info.url),
                       !.valid = validate_metadata(parse_filename(url_info.url))]

MetadataIdle == url_info = NotExtracted("", "", "", "")

(***************************************************************************)
(* load_rasters.py: one load_raster call, with the cache behind it         *)
(*                                                                         *)
(* files is the cache directory a RasterLoader may be given (CACHE_DIR),   *)
(* tmp_dir the system's temporary directory, where load_raster downloads   *)
(* when it does not use the cache.  What the environment does to a call is *)
(* its env: whether the cache lookup raises (a cache directory that cannot *)
(* be read), where download_file fails, and whether rasterio can read the  *)
(* file.                                                                   *)
(***************************************************************************)

\* load_raster calls at most.
MaxLoads == 2

\* The unit load_raster is exercised with (its URL is one of Urls).
LoadUnits == {<<"KEN", "M", "0_4">>}

\* The cache directory when the loads start: any state of the unit's entry.
LoadDirectories ==
    { Directory(e) :
        e \in UNION { InitialEntries(get_raster_url(u[1], u[2], u[3])) :
                        u \in LoadUnits } }

\* When the loads start: with the entry just stamped, or just expired.
LoadStartTimes == {0, CACHE_MAX_AGE}

\* RasterLoader.cache_dir: None, or the cache directory.
CacheDirs == {None, Some("cache")}

\* The download_file faults that are failures of the cache directory, not of
\* the network: the payload or the sidecar cannot be created or written.
CacheWriteFaults == {"payload_open", "metadata_open", "metadata_write"}

\* The download_file faults a load is exercised with: none, the network's,
\* the payload's and the sidecar's.
LoadFaults == {"none", "request", "payload_open", "metadata_write"}

Envs ==
    [lookup : {"ok", "raises"}, download : LoadFaults, decode : {"ok", "error"}]

\* tempfile.NamedTemporaryFile(suffix='.tif', delete=False): the n-th name.
TempFile(n) == <<"tmp" \o ToString(n), ".tif">>

\* src.bounds of a north-up raster with unit cells and origin (0, 0).
Bounds(profile) ==
    [left |-> 0, bottom |-> 0 - profile.height, right |-> profile.width, top |-> 0]

\* Lines 50-57: data, profile and bounds read from the file of a unit.
Decoded(unit) ==
    LET raster == RemoteRaster(unit[1], unit[2], unit[3])
    IN [data    |-> Some(raster.data),
        profile |-> Some(raster.profile),
        bounds  |-> Some(Bounds(raster.profile))]

\* return None, None, None
LoadFailure == [data |-> None, profile |-> None, bounds |-> None]

\* Lines 59-61 as a bug would have it: the exception is logged and re-raised.
ExceptReraises == [raised |-> TRUE, result |-> LoadFailure]

\* Lines 59-61: except Exception logs and returns None, None, None.
ExceptReturnsFailure == [raised |-> FALSE, result |-> LoadFailure]

\* RasterLoader(cache_dir).load_raster(country, sex, age_group, use_cache),
\* lines 35-61, as the n-th call: the directories it leaves, its locals and
\* what it returns.
load_raster_call(cache_dir, use_cache, fs, tmp, t, n, unit, env) ==
    LET url == get_raster_url(unit[1], unit[2], unit[3])
        consulted == use_cache /\ cache_dir # None
        lookup_raised == consulted /\ env.lookup = "raises"
        cached_file == IF consulted /\ ~lookup_raised
                       THEN get_cached_file(fs, t, url, CACHE_MAX_AGE)
                       ELSE None
        downloaded == ~lookup_raised /\ cached_file = None
        tmp_created == IF consulted THEN tmp ELSE Put(tmp, TempFile(n), Payload(<<>>))
        dl == download_file(IF consulted THEN fs ELSE tmp_created, t, url,
                            env.download)
        opened == ~lookup_raised /\ (downloaded => ~dl.raised)
        returned == opened /\ env.decode = "ok"
        outcome_ == IF returned
                    THEN [raised |-> FALSE, result |-> Decoded(unit)]
                    ELSE ExceptReturnsFailure
    IN [files       |-> IF consulted /\ downloaded THEN dl.files ELSE fs,
        tmp_dir     |-> IF consulted THEN tmp
                        ELSE IF downloaded THEN dl.files ELSE tmp_created,
        consulted   |-> consulted,
        cached_file |-> cached_file,
        downloaded  |-> downloaded,
        raised      |-> outcome_.raised,
        result      |-> outcome_.result]

NotLoaded ==
    [called |-> FALSE, caller |-> "", run_use_cache |-> FALSE, cache_dir |-> None,
     use_cache |-> FALSE, unit |-> <<"", "", "">>,
     env |-> [lookup |-> "ok", download |-> "none", decode |-> "ok"],
     consulted |-> FALSE, cached_file |-> None, downloaded |-> FALSE,
     raised |-> FALSE, result |-> LoadFailure]

\* One load_raster call and what it leaves behind.
LoadStep(caller, run_use_cache, cache_dir, use_cache, unit, env) ==
    /\ loads < MaxLoads
    /\ LET r == load_raster_call(cache_dir, use_cache, files, tmp_dir, now,
                                 loads + 1, unit, env)
       IN /\ files' = r.files
          /\ tmp_dir' = r.tmp_dir
          /\ load' = [called |-> TRUE, caller |-> caller,
                      run_use_cache |-> run_use_cache, cache_dir |-> cache_dir,
                      use_cache |-> use_cache, unit |-> unit, env |-> env,
                      consulted |-> r.consulted, cached_file |-> r.cached_file,
                      downloaded |-> r.downloaded, raised |-> r.raised,
                      result |-> r.result]
    /\ loads' = loads + 1
    /\ call' = NoCall
    /\ UNCHANGED <<now, ticks, procs>>

\* A caller's RasterLoader(cache_dir).load_raster(country, sex, age_group,
\* use_cache).
LoadRaster(cache_dir, use_cache, unit, env) ==
    LoadStep("load_raster", use_cache, cache_dir, use_cache, unit, env)

\* run_pipeline(use_cache=...) loading one unit: RasterLoader() (line 36 of
\* run_pipeline.py), then batch_load_rasters calling
\* self.load_raster(country, sex, age_group) (line 124 of load_rasters.py).
RunPipelineLoad(run_use_cache, unit, env) ==
    LoadStep("run_pipeline", run_use_cache, None, TRUE, unit, env)

(***************************************************************************)
(* Idle values: what a specification leaves the other parts at             *)
(***************************************************************************)

LoadIdle ==
    /\ tmp_dir = EmptyMap
    /\ loads = 0
    /\ load = NotLoaded

ZonalIdle ==
    /\ raster_info = [data |-> <<>>, profile |-> Profile(0, 0, {})]
    /\ zonal = NotSummarized

TableIdle ==
    /\ combined_summary = <<>>
    /\ demographic_indicators = NotCalculated

RunIdle ==
    /\ pc = "idle"
    /\ request = <<>>
    /\ attempts = <<>>
    /\ raster_data = EmptyMap
    /\ metadata_summary = NoSummary
    /\ district_summaries = EmptyMap
    /\ outcome = "none"

(***************************************************************************)
(* SpecCache: any sequence of lookups, downloads and clock ticks           *)
(***************************************************************************)

InitCache ==
    /\ MetadataIdle
    /\ files \in InitialDirectories
    /\ now = 0
    /\ ticks = 0
    /\ call = NoCall
    /\ procs = NoProcs
    /\ admin_boundaries = EmptyMap
    /\ ZonalIdle /\ TableIdle /\ RunIdle /\ LoadIdle

NextCache ==
    \/ \E url \in Urls, max_age \in MaxAges :
          Lookup(url, max_age)
          /\ UNCHANGED <<admin_boundaries, zonalVars, tableVars, runVars, loadVars, metadataVars>>
    \/ \E url \in Urls, fault \in Faults :
          Download(url, fault)
          /\ UNCHANGED <<admin_boundaries, zonalVars, tableVars, runVars, loadVars, metadataVars>>
    \/ \E step \in TickSteps :
          Tick(step)
          /\ UNCHANGED <<admin_boundaries, zonalVars, tableVars, runVars, loadVars, metadataVars>>

SpecCache == InitCache /\ [][NextCache]_vars

(***************************************************************************)
(* SpecSweep: the cache filled by downloads, swept and measured as time    *)
(* passes                                                                  *)
(***************************************************************************)

InitSweep ==
    /\ MetadataIdle
    /\ files \in InitialDirectories
    /\ now = 0
    /\ ticks = 0
    /\ call = NoCall
    /\ procs = NoProcs
    /\ admin_boundaries = EmptyMap
    /\ ZonalIdle /\ TableIdle /\ RunIdle /\ LoadIdle

NextSweep ==
    \/ /\ \E url \in Urls, fault \in {"none", "metadata_write"} :
             Download(url, fault)
       /\ UNCHANGED <<zonalVars, admin_boundaries, tableVars, runVars, loadVars, metadataVars>>
    \/ /\ \E step \in TickSteps : Tick(step)
       /\ UNCHANGED <<zonalVars, admin_boundaries, tableVars, runVars, loadVars, metadataVars>>
    \/ /\ \E max_age \in MaxAges : Sweep(max_age)
       /\ UNCHANGED <<zonalVars, admin_boundaries, tableVars, runVars, loadVars, metadataVars>>
    \/ /\ Size
       /\ UNCHANGED <<zonalVars, admin_boundaries, tableVars, runVars, loadVars, metadataVars>>

SpecSweep == InitSweep /\ [][NextSweep]_vars

(***************************************************************************)
(* SpecConcurrent: two download_file calls and repeated get_cached_file    *)
(* calls on one URL, interleaved step by step, the writers failing at any  *)
(* step                                                                    *)
(***************************************************************************)

InitConcurrent ==
    /\ MetadataIdle
    /\ files \in { Directory(e) : e \in InitialEntries(SharedUrl) }
    /\ now = 0
    /\ ticks = 0
    /\ call = NoCall
    /\ procs = [p \in Writers \cup Readers |->
                   IF p \in Writers THEN Idle("request") ELSE Idle("payload_exists")]
    /\ admin_boundaries = EmptyMap
    /\ ZonalIdle /\ TableIdle /\ RunIdle /\ LoadIdle

NextConcurrent ==
    \/ \E p \in Writers, ok \in BOOLEAN :
          DownloadRequest(p, ok)
          /\ UNCHANGED <<admin_boundaries, zonalVars, tableVars, runVars, loadVars, metadataVars>>
    \/ \E p \in Writers, ok \in BOOLEAN :
          DownloadOpenPayload(p, ok)
          /\ UNCHANGED <<admin_boundaries, zonalVars, tableVars, runVars, loadVars, metadataVars>>
    \/ \E p \in Writers, ok \in BOOLEAN :
          DownloadWriteChunk(p, ok)
          /\ UNCHANGED <<admin_boundaries, zonalVars, tableVars, runVars, loadVars, metadataVars>>
    \/ \E p \in Writers :
          DownloadStat(p)
          /\ UNCHANGED <<admin_boundaries, zonalVars, tableVars, runVars, loadVars, metadataVars>>
    \/ \E p \in Writers, ok \in BOOLEAN :
          DownloadOpenMetadata(p, ok)
          /\ UNCHANGED <<admin_boundaries, zonalVars, tableVars, runVars, loadVars, metadataVars>>
    \/ \E p \in Writers, ok \in BOOLEAN :
          DownloadDump(p, ok)
          /\ UNCHANGED <<admin_boundaries, zonalVars, tableVars, runVars, loadVars, metadataVars>>
    \/ \E p \in Writers :
          DownloadExcept(p)
          /\ UNCHANGED <<admin_boundaries, zonalVars, tableVars, runVars, loadVars, metadataVars>>
    \/ \E p \in Readers :
          LookupPayloadExists(p)
          /\ UNCHANGED <<admin_boundaries, zonalVars, tableVars, runVars, loadVars, metadataVars>>
    \/ \E p \in Readers :
          LookupMetadataExists(p)
          /\ UNCHANGED <<admin_boundaries, zonalVars, tableVars, runVars, loadVars, metadataVars>>
    \/ \E p \in Readers :
          LookupLoad(p)
          /\ UNCHANGED <<admin_boundaries, zonalVars, tableVars, runVars, loadVars, metadataVars>>
    \/ \E p \in Readers, max_age \in MaxAges :
          LookupCheck(p, max_age)
          /\ UNCHANGED <<admin_boundaries, zonalVars, tableVars, runVars, loadVars, metadataVars>>
    \/ \E p \in Readers :
          LookupAgain(p)
          /\ UNCHANGED <<admin_boundaries, zonalVars, tableVars, runVars, loadVars, metadataVars>>

SpecConcurrent == InitConcurrent /\ [][NextConcurrent]_vars

(***************************************************************************)
(* SpecLoad: load_raster calls, by a caller of RasterLoader and by         *)
(* run_pipeline, over every state of the unit's cache entry                *)
(***************************************************************************)

InitLoad ==
    /\ MetadataIdle
    /\ files \in LoadDirectories
    /\ now \in LoadStartTimes
    /\ ticks = 0
    /\ call = NoCall
    /\ procs = NoProcs
    /\ admin_boundaries = EmptyMap
    /\ LoadIdle
    /\ ZonalIdle /\ TableIdle /\ RunIdle

NextLoad ==
    \/ \E cache_dir \in CacheDirs, use_cache \in BOOLEAN, unit \in LoadUnits,
          env \in Envs :
          LoadRaster(cache_dir, use_cache, unit, env)
          /\ UNCHANGED <<admin_boundaries, zonalVars, tableVars, runVars, metadataVars>>
    \/ \E run_use_cache \in BOOLEAN, unit \in LoadUnits, env \in Envs :
          RunPipelineLoad(run_use_cache, unit, env)
          /\ UNCHANGED <<admin_boundaries, zonalVars, tableVars, runVars, metadataVars>>

SpecLoad == InitLoad /\ [][NextLoad]_vars

(***************************************************************************)
(* SpecZonal: summarize_raster_by_districts on every enumerated raster and *)
(* boundary set, and on the tests' scenario                                *)
(***************************************************************************)

InitZonal ==
    /\ MetadataIdle
    /\ \/ /\ raster_info \in EnumeratedRasters
          /\ admin_boundaries \in EnumeratedBoundaries
       \/ /\ raster_info = ScenarioRaster
          /\ admin_boundaries = ScenarioBoundaries
    /\ zonal = NotSummarized
    /\ CacheIdle /\ TableIdle /\ RunIdle /\ LoadIdle

NextZonal ==
    \E country \in {"KEN", "UGA", "TEST"} :
        Summarize(country) /\ UNCHANGED <<cacheVars, tableVars, runVars, loadVars, metadataVars>>

SpecZonal == InitZonal /\ [][NextZonal]_vars

(***************************************************************************)
(* SpecDistricts: summarize_raster_by_districts on boundary sets of any    *)
(* size, with districts that cannot be processed                           *)
(***************************************************************************)

InitDistricts ==
    /\ MetadataIdle
    /\ raster_info \in FaultyRasters
    /\ admin_boundaries \in FaultyBoundaries
    /\ zonal = NotSummarized
    /\ CacheIdle /\ TableIdle /\ RunIdle /\ LoadIdle

NextDistricts ==
    \E country \in {"KEN", "UGA"} :
        Summarize(country) /\ UNCHANGED <<cacheVars, tableVars, runVars, loadVars, metadataVars>>

SpecDistricts == InitDistricts /\ [][NextDistricts]_vars

(***************************************************************************)
(* SpecRegistry: the summarizer's operations called in any order on a      *)
(* loaded registry, boundaries and grids being in the same or in different *)
(* coordinate reference systems                                            *)
(***************************************************************************)

InitRegistry ==
    /\ MetadataIdle
    /\ admin_boundaries \in { BoundariesIn(crs) : crs \in Crs }
    /\ raster_info \in { [r EXCEPT !.profile = @ @@ [crs |-> crs]] :
                           r \in EnumeratedRasters, crs \in Crs }
    /\ zonal = NotSummarized
    /\ CacheIdle /\ TableIdle /\ RunIdle /\ LoadIdle

NextRegistry ==
    \/ \E country \in {"KEN", "UGA", "TEST"} :
          RegistrySummarize(country) /\ UNCHANGED <<cacheVars, loadVars, metadataVars>>
    \/ RegistryBatch /\ UNCHANGED <<cacheVars, loadVars, metadataVars>>
    \/ RegistryCombine /\ UNCHANGED <<cacheVars, loadVars, metadataVars>>
    \/ RegistryCalculate /\ UNCHANGED <<cacheVars, loadVars, metadataVars>>

SpecRegistry == InitRegistry /\ [][NextRegistry]_vars

(***************************************************************************)
(* SpecMetadata: the metadata helpers on the URL of every unit, and on     *)
(* other names                                                             *)
(***************************************************************************)

InitMetadata ==
    /\ url_info \in
          { NotExtracted(country, sex, age_group,
                         get_raster_url(country, sex, age_group)) :
              country \in Range(COUNTRIES), sex \in Range(SEX_OPTIONS),
              age_group \in Range(AGE_GROUPS) }
          \cup { NotExtracted("", "", "", name) : name \in OtherFilenames }
    /\ admin_boundaries = EmptyMap
    /\ CacheIdle /\ ZonalIdle /\ TableIdle /\ RunIdle /\ LoadIdle

NextMetadata ==
    ExtractFromUrl
    /\ UNCHANGED <<cacheVars, zonalVars, admin_boundaries, tableVars, runVars,
                   loadVars>>

SpecMetadata == InitMetadata /\ [][NextMetadata]_vars

(***************************************************************************)
(* SpecIndicators: calculate_demographic_indicators on every enumerated    *)
(* combined table                                                          *)
(***************************************************************************)

InitIndicators ==
    /\ MetadataIdle
    /\ combined_summary \in EnumeratedTables
    /\ demographic_indicators = NotCalculated
    /\ admin_boundaries = EmptyMap
    /\ CacheIdle /\ ZonalIdle /\ RunIdle /\ LoadIdle

NextIndicators ==
    Calculate /\ UNCHANGED <<cacheVars, zonalVars, admin_boundaries, runVars, loadVars, metadataVars>>

SpecIndicators == InitIndicators /\ [][NextIndicators]_vars

(***************************************************************************)
(* SpecPipeline: one run of run_pipeline, for every request, every pattern *)
(* of unreadable boundary files, failed loads and failed writes            *)
(***************************************************************************)

InitPipeline ==
    /\ MetadataIdle
    /\ pc = "construct"
    /\ request \in Requests
    /\ attempts = <<>>
    /\ raster_data = EmptyMap
    /\ metadata_summary = NoSummary
    /\ district_summaries = EmptyMap
    /\ outcome = "running"
    /\ admin_boundaries = EmptyMap
    /\ CacheIdle /\ ZonalIdle /\ TableIdle /\ LoadIdle

NextPipeline ==
    \/ \E readable \in SUBSET GADM_FILES :
          Construct(readable) /\ UNCHANGED <<cacheVars, zonalVars, loadVars, metadataVars>>
    \/ \E fate \in Fates :
          LoadNext(fate) /\ UNCHANGED <<cacheVars, zonalVars, loadVars, metadataVars>>
    \/ BatchLoadReturn /\ UNCHANGED <<cacheVars, zonalVars, loadVars, metadataVars>>
    \/ \E written \in BOOLEAN :
          ExtractMetadata(written) /\ UNCHANGED <<cacheVars, zonalVars, loadVars, metadataVars>>
    \/ SummarizeAll /\ UNCHANGED <<cacheVars, zonalVars, loadVars, metadataVars>>
    \/ \E written \in BOOLEAN :
          Combine(written) /\ UNCHANGED <<cacheVars, zonalVars, loadVars, metadataVars>>
    \/ \E written \in BOOLEAN :
          Indicators(written) /\ UNCHANGED <<cacheVars, zonalVars, loadVars, metadataVars>>
    \/ \E written \in BOOLEAN :
          ReturnResults(written) /\ UNCHANGED <<cacheVars, zonalVars, loadVars, metadataVars>>

SpecPipeline == InitPipeline /\ [][NextPipeline]_vars

(***************************************************************************)
(* Claims about a pipeline run (SpecPipeline)                              *)
(***************************************************************************)

\* batch_load_rasters has returned.
BatchLoaded == pc \notin {"construct", "load"}

\* Step 2 of the run (create_metadata_summary and its exports) is through.
Summarized == pc \in {"summarize", "combine", "indicators", "results", "done"}

\* The attempts whose load_raster call returned a grid, and those that did not.
LoadedAttempts == { k \in 1..Len(attempts) : attempts[k].result.data # None }

FailedAttempts == { k \in 1..Len(attempts) : attempts[k].result.data = None }

\* C1: after batch_load_rasters and create_metadata_summary every requested
\* unit whose grid failed to load is listed in failed_rasters: the requested
\* units are the loaded ones plus the ones in failed_rasters.
C1_FailedUnitsAreListed ==
    Summarized =>
        LET requested == { UnitName(u) : u \in Range(Units(request)) }
            loaded == { UnitName(attempts[k].unit) : k \in LoadedAttempts }
            failed == Range(metadata_summary.failed_rasters)
        IN /\ requested = loaded \cup failed
           /\ \A k \in FailedAttempts : UnitName(attempts[k].unit) \in failed

\* C2: a run that requested at least one unit completes whatever loads and
\* boundary files failed; only a failed write of an output artifact ends it
\* early.
C2_OnlyWriteFailureAborts ==
    (pc = "failed" /\ attempts # <<>>) => outcome = "OutputWriteFailure"

\* Where a unit stands in the request: country, then sex, then age group.
Position(u) ==
    LET IndexIn(seq, x) == CHOOSE i \in 1..Len(seq) : seq[i] = x
    IN <<IndexIn(request.countries, u[1]), IndexIn(request.sex_options, u[2]),
         IndexIn(request.age_groups, u[3])>>

Before(p, q) ==
    \/ p[1] < q[1]
    \/ p[1] = q[1] /\ p[2] < q[2]
    \/ p[1] = q[1] /\ p[2] = q[2] /\ p[3] < q[3]

\* C3: batch_load_rasters attempts every requested combination exactly once,
\* in country -> sex -> age_group order, whatever the earlier attempts gave,
\* and every combination that loaded is in the returned mapping with its
\* grid.
C3_EveryUnitAttemptedInOrder ==
    /\ \A i, j \in 1..Len(attempts) :
          i < j => Before(Position(attempts[i].unit), Position(attempts[j].unit))
    /\ \A k \in 1..Len(attempts) :
          /\ attempts[k].unit[1] \in Range(request.countries)
          /\ attempts[k].unit[2] \in Range(request.sex_options)
          /\ attempts[k].unit[3] \in Range(request.age_groups)
    /\ BatchLoaded =>
          /\ \A c \in Range(request.countries), s \in Range(request.sex_options),
                a \in Range(request.age_groups) :
                Cardinality({ k \in 1..Len(attempts) :
                                attempts[k].unit = <<c, s, a>> }) = 1
          /\ \A k \in LoadedAttempts :
                LET u == attempts[k].unit
                IN /\ u[1] \in DOMAIN raster_data
                   /\ u[2] \in DOMAIN raster_data[u[1]]
                   /\ u[3] \in DOMAIN raster_data[u[1]][u[2]]
                   /\ raster_data[u[1]][u[2]][u[3]].data
                        = <<RemoteRaster(u[1], u[2], u[3]).data>>

\* C3 witness: the batch has returned; an attempt failed, a later attempt of
\* the same country and sex and one of the next country loaded, and both are
\* in the mapping.
C3_Witness ==
    /\ BatchLoaded
    /\ \E i \in FailedAttempts, j, k \in LoadedAttempts :
          /\ i < j /\ j < k
          /\ attempts[i].unit[1] = attempts[j].unit[1]
          /\ attempts[i].unit[2] = attempts[j].unit[2]
          /\ attempts[i].unit[1] # attempts[k].unit[1]
          /\ attempts[j].unit[3] \in
                DOMAIN raster_data[attempts[j].unit[1]][attempts[j].unit[2]]
          /\ attempts[k].unit[3] \in
                DOMAIN raster_data[attempts[k].unit[1]][attempts[k].unit[2]]

\* C4: the mapping batch_load_rasters returns has an entry for every
\* requested combination: the grid of a combination that loaded, and a
\* failure value (no data) for a combination that failed.
C4_EveryUnitHasAnEntry ==
    BatchLoaded =>
        \A k \in 1..Len(attempts) :
            LET u == attempts[k].unit
            IN /\ u[1] \in DOMAIN raster_data
               /\ u[2] \in DOMAIN raster_data[u[1]]
               /\ u[3] \in DOMAIN raster_data[u[1]][u[2]]
               /\ raster_data[u[1]][u[2]][u[3]].data = attempts[k].result.data

\* Step 3 of the run (batch_summarize_rasters) is through.
SummarizedAll == pc \in {"combine", "indicators", "results", "done"}

\* The age groups of a country and sex whose load_raster call returned a grid.
LoadedAgeGroups(country, sex) ==
    { attempts[k].unit[3] :
        k \in { j \in LoadedAttempts : /\ attempts[j].unit[1] = country
                                        /\ attempts[j].unit[2] = sex } }

\* The registry holds exactly the countries whose file could be read, each
\* with its file's districts, and the constructor goes on to the loads.
RegistryAfterConstruct ==
    \A readable \in SUBSET GADM_FILES :
        Construct(readable) =>
            /\ DOMAIN admin_boundaries' = GADM_FILES \cap readable
            /\ \A c \in DOMAIN admin_boundaries' :
                  admin_boundaries'[c] = GadmBoundaries[c]
            /\ pc' = "load"

\* batch_summarize_rasters' output has, per requested country and sex, no
\* entry when the country has no boundaries and otherwise exactly the loaded
\* age groups, each with one row per district of the country.
SummariesOfLoadedGridsWithBoundaries ==
    SummarizedAll =>
        /\ DOMAIN district_summaries = Range(request.countries)
        /\ \A c \in Range(request.countries), s \in Range(request.sex_options) :
              /\ DOMAIN district_summaries[c] = Range(request.sex_options)
              /\ DOMAIN district_summaries[c][s]
                   = IF c \in DOMAIN admin_boundaries
                     THEN LoadedAgeGroups(c, s)
                     ELSE {}
              /\ \A a \in DOMAIN district_summaries[c][s] :
                    LET rows == district_summaries[c][s][a]
                        grid == RemoteRaster(c, s, a).data
                    IN /\ Len(rows) = Len(GadmBoundaries[c])
                       /\ \A i \in 1..Len(rows) :
                             /\ rows[i].district_id = GadmBoundaries[c][i].district_id
                             /\ rows[i].population
                                  = SumOfCells(grid,
                                      { x \in GadmBoundaries[c][i].geometry :
                                          grid[x] # NODATA })

\* C18: a boundary file that cannot be read leaves its country out of the
\* registry and nothing else: load_admin_boundaries does not raise and loads
\* every other country; batch_summarize_rasters yields nothing for the
\* grids of a country without boundaries and a result for exactly the loaded
\* grids of every country with boundaries.
C18_BoundaryFailureIsConfined ==
    /\ [][RegistryAfterConstruct]_vars
    /\ []SummariesOfLoadedGridsWithBoundaries

\* C18 witness: Kenya's file could not be read and Uganda's could; grids of
\* both countries loaded and one of Uganda's failed; the output has no entry
\* for Kenya's grids and one for Uganda's loaded grid.
C18_Witness ==
    /\ SummarizedAll
    /\ DOMAIN admin_boundaries = {"UGA"}
    /\ \E s \in Range(request.sex_options) :
          /\ LoadedAgeGroups("KEN", s) # {}
          /\ district_summaries["KEN"][s] = EmptyMap
    /\ \E s \in Range(request.sex_options) :
          /\ LoadedAgeGroups("UGA", s) # {}
          /\ LoadedAgeGroups("UGA", s) # Range(request.age_groups)
          /\ DOMAIN district_summaries["UGA"][s] = LoadedAgeGroups("UGA", s)

\* Step 4 of run_pipeline is through: combined_summary is the table
\* create_combined_summary returned for district_summaries.
Combined == pc \in {"indicators", "results", "done"}

\* The entries of district_summaries, in the order Python iterates them.
SummaryEntries == EntriesOf(district_summaries, request)

\* The number of district rows of the entries before the k-th.
RowsBefore(k) ==
    SeqSum([j \in 1..(k - 1) |->
               Len(Entry(district_summaries, SummaryEntries[j]))])

\* C21: create_combined_summary emits exactly one row per district cell of
\* every entry of its input: the table has as many rows as the entries have
\* districts together, the rows of an entry follow those of the entries
\* before it in the districts' order, and each carries the entry's country,
\* sex and age band and the cell's district_id, district, region and
\* population unchanged; a mapping without entries gives an empty table.
C21_OneRowPerDistrictCell ==
    Combined =>
        /\ Len(combined_summary) = RowsBefore(Len(SummaryEntries) + 1)
        /\ \A k \in 1..Len(SummaryEntries) :
              LET u == SummaryEntries[k]
                  cells == Entry(district_summaries, u)
              IN \A i \in 1..Len(cells) :
                    LET row == combined_summary[RowsBefore(k) + i]
                    IN /\ row.country = u[1]
                       /\ row.sex = u[2]
                       /\ row.age_group = u[3]
                       /\ row.district_id = cells[i].district_id
                       /\ row.district = cells[i].district
                       /\ row.region = cells[i].region
                       /\ row.population = cells[i].population
        /\ (SummaryEntries = <<>> => combined_summary = <<>>)

\* C21 witness: the table was built from entries of both countries, Kenya's
\* with two districts and Uganda's with one, while a loaded unit is missing
\* among them.
C21_Witness ==
    /\ Combined
    /\ \E k \in 1..Len(SummaryEntries) :
          /\ SummaryEntries[k][1] = "KEN"
          /\ Len(Entry(district_summaries, SummaryEntries[k])) = 2
    /\ \E k \in 1..Len(SummaryEntries) :
          /\ SummaryEntries[k][1] = "UGA"
          /\ Len(Entry(district_summaries, SummaryEntries[k])) = 1
    /\ Len(SummaryEntries) < Len(Units(request))
    /\ Len(combined_summary) > Len(SummaryEntries)

\* The columns of the tidy table the visualization layer is to be handed.
TidyColumns == {"country", "district", "age_group", "sex", "population"}

\* C22: the table run_pipeline builds and writes in step 4 has exactly the
\* columns country, district, age_group, sex and population, and its
\* age_group values are in the display encoding ("80+", "0-4"), not in the
\* rasters' ("80_plus", "0_4").
C22_TidyTableInDisplayEncoding ==
    Combined =>
        \A i \in 1..Len(combined_summary) :
            /\ DOMAIN combined_summary[i] = TidyColumns
            /\ combined_summary[i].age_group
                   \in { format_age_group_display(a) : a \in Range(AGE_GROUPS) }

\* The decoded grids a run holds: those batch_load_rasters has stored in the
\* dict it is building (lines 126-130) and returns as raster_data, which
\* run_pipeline keeps until it returns.
ResidentGrids == LoadedAttempts

\* C26: units are processed one at a time, each acquired and aggregated
\* before the next is acquired: in every state of a run at most one decoded
\* grid is resident, and no unit is loaded while an earlier loaded one is
\* still to be aggregated.
C26_AtMostOneGridResident ==
    /\ Cardinality(ResidentGrids) <= 1
    /\ (pc = "load" /\ Len(attempts) < Len(Units(request))
            => ResidentGrids = {})

(***************************************************************************)
(* Claims about the indicators (SpecIndicators)                            *)
(***************************************************************************)

\* C10: every (country, district_id, district) group of the combined table
\* has a row in the indicator table whose total_population is the sum of the
\* population of the group's rows.
C10_EveryGroupHasItsTotal ==
    demographic_indicators.called =>
        \A i \in 1..Len(combined_summary) :
            LET key == <<combined_summary[i].country, combined_summary[i].district_id,
                         combined_summary[i].district>>
                members == { m \in 1..Len(combined_summary) :
                               /\ combined_summary[m].country = key[1]
                               /\ combined_summary[m].district_id = key[2]
                               /\ combined_summary[m].district = key[3] }
                population == [m \in 1..Len(combined_summary) |->
                                  combined_summary[m].population]
            IN \E j \in 1..Len(demographic_indicators.rows) :
                  /\ demographic_indicators.rows[j].country = key[1]
                  /\ demographic_indicators.rows[j].district_id = key[2]
                  /\ demographic_indicators.rows[j].district = key[3]
                  /\ demographic_indicators.rows[j].total_population
                       = SumOfCells(population, members)

\* The rows of the combined table that belong to an indicator row's group.
MembersOf(row) ==
    { m \in 1..Len(combined_summary) :
        /\ combined_summary[m].country = row.country
        /\ combined_summary[m].district_id = row.district_id
        /\ combined_summary[m].district = row.district }

\* The population column of the combined table.
PopulationColumn ==
    [m \in 1..Len(combined_summary) |-> combined_summary[m].population]

\* The bands that are in one of the three bins.
Classified == age_bins.children \cup age_bins.working_age \cup age_bins.elderly

\* C11: the three bins are pairwise disjoint and cover the 17 bands of
\* AGE_GROUPS; in every indicator row (total > 0) the child, working-age and
\* elderly shares plus the share of the bands in no bin make 100% of the
\* total, and the three shares alone make 100% when the group's rows use
\* only bands of AGE_GROUPS.
C11_SharesSumTo100 ==
    /\ age_bins.children \cap age_bins.working_age = {}
    /\ age_bins.children \cap age_bins.elderly = {}
    /\ age_bins.working_age \cap age_bins.elderly = {}
    /\ Classified = Range(AGE_GROUPS)
    /\ \A j \in 1..Len(demographic_indicators.rows) :
          LET row == demographic_indicators.rows[j]
              unclassified ==
                  { m \in MembersOf(row) :
                      combined_summary[m].age_group \notin Classified }
              unclassified_pop == SumOfCells(PopulationColumn, unclassified)
              shares == row.child_percentage.num + row.working_age_percentage.num
                          + row.elderly_percentage.num
          IN /\ row.total_population > 0
             /\ row.child_percentage.den = row.total_population
             /\ row.working_age_percentage.den = row.total_population
             /\ row.elderly_percentage.den = row.total_population
             /\ shares + 100 * unclassified_pop = 100 * row.total_population
             /\ (\A m \in MembersOf(row) :
                    combined_summary[m].age_group \in Range(AGE_GROUPS))
                  => shares = 100 * row.total_population

\* C11 witness: a row whose group has a populated band in no bin next to a
\* populated elderly band.
C11_Witness ==
    \E j \in 1..Len(demographic_indicators.rows) :
        LET row == demographic_indicators.rows[j]
        IN /\ \E m \in MembersOf(row) :
                 /\ combined_summary[m].age_group \notin Classified
                 /\ combined_summary[m].population > 0
           /\ row.elderly_percentage.num > 0
           /\ row.elderly_percentage.num < 100 * row.total_population

\* The male and the female population of an indicator row's group.
MalePopulation(row) ==
    SumOfCells(PopulationColumn,
               { m \in MembersOf(row) : combined_summary[m].sex = "M" })

FemalePopulation(row) ==
    SumOfCells(PopulationColumn,
               { m \in MembersOf(row) : combined_summary[m].sex = "F" })

\* C12 as stated: in every indicator row sex_ratio is 0 exactly when the
\* group's female population is 0, and no division fails.
C12_SexRatioZeroIffNoFemales ==
    \A j \in 1..Len(demographic_indicators.rows) :
        LET row == demographic_indicators.rows[j]
        IN /\ row.sex_ratio.den # 0
           /\ row.sex_ratio.num = 0 <=> FemalePopulation(row) = 0

\* C12 amended: in every indicator row sex_ratio is 0 when the group's female
\* population is 0 and male / female otherwise (which is 0 as well when the
\* male population is 0), and no division fails.
C12_SexRatioGuarded ==
    \A j \in 1..Len(demographic_indicators.rows) :
        LET row == demographic_indicators.rows[j]
        IN /\ row.sex_ratio.den # 0
           /\ row.male_population = MalePopulation(row)
           /\ row.female_population = FemalePopulation(row)
           /\ FemalePopulation(row) = 0 => row.sex_ratio = Ratio(0, 1)
           /\ FemalePopulation(row) > 0 =>
                 row.sex_ratio = Ratio(MalePopulation(row), FemalePopulation(row))
           /\ row.sex_ratio.num = 0 <=>
                 (FemalePopulation(row) = 0 \/ MalePopulation(row) = 0)

\* C12 witness: a row of a group without females and with males.
C12_Witness ==
    \E j \in 1..Len(demographic_indicators.rows) :
        LET row == demographic_indicators.rows[j]
        IN /\ FemalePopulation(row) = 0
           /\ MalePopulation(row) > 0
           /\ row.sex_ratio = Ratio(0, 1)

\* C13: calculate_demographic_indicators emits one row per group of the
\* combined table; a group whose total population is 0 is emitted with
\* child, working-age and elderly percentages 0.
C13_ZeroTotalGroupsAreEmitted ==
    (demographic_indicators.called /\ ~demographic_indicators.raised) =>
        /\ Len(demographic_indicators.rows) = Len(GroupKeys(combined_summary))
        /\ \A j \in 1..Len(demographic_indicators.rows) :
              LET row == demographic_indicators.rows[j]
              IN /\ <<row.country, row.district_id, row.district>>
                      = GroupKeys(combined_summary)[j]
                 /\ row.total_population = 0 =>
                       /\ row.child_percentage.num = 0
                       /\ row.working_age_percentage.num = 0
                       /\ row.elderly_percentage.num = 0

\* C14: calculate_demographic_indicators on an empty combined table returns
\* an empty indicator table and raises nothing.
C14_EmptyTableGivesEmptyTable ==
    (demographic_indicators.called /\ combined_summary = <<>>) =>
        /\ ~demographic_indicators.raised
        /\ demographic_indicators.rows = <<>>

(***************************************************************************)
(* Claims about the cache (SpecCache)                                      *)
(***************************************************************************)

\* C5: get_cached_file returns the payload path if and only if the payload
\* exists, the sidecar exists and is readable, and now - timestamp < max_age
\* (an entry aged exactly max_age is expired, a payload without sidecar is
\* never returned); otherwise it returns None, and it never raises.
C5_LookupIffValid ==
    call.op = "get_cached_file" =>
        LET payload == <<generate_cache_key(call.url), ".tif">>
            sidecar == <<generate_cache_key(call.url), ".json">>
            valid == /\ payload \in DOMAIN files
                     /\ sidecar \in DOMAIN files
                     /\ files[sidecar].ok
                     /\ now - files[sidecar].timestamp < call.max_age
        IN /\ ~call.raised
           /\ valid => call.result = payload
           /\ ~valid => call.result = None

\* C5 witness: a complete entry aged exactly the default max_age was looked
\* up and found expired.
C5_Witness ==
    /\ call.op = "get_cached_file"
    /\ call.max_age = CACHE_MAX_AGE
    /\ CacheFile(call.url) \in DOMAIN files
    /\ MetadataFile(call.url) \in DOMAIN files
    /\ files[MetadataFile(call.url)].ok
    /\ now - files[MetadataFile(call.url)].timestamp = CACHE_MAX_AGE
    /\ call.result = None

\* C6: right after a successful download_file(url), get_cached_file(url) with
\* the default max_age returns a path, the one download_file returned.
C6_RoundTrip ==
    (call.op = "download_file" /\ ~call.raised) =>
        /\ call.result # None
        /\ call.result \in DOMAIN files
        /\ get_cached_file(files, now, call.url, CACHE_MAX_AGE) = call.result

\* C6 witness: a download succeeded over an entry that had expired.
C6_Witness ==
    /\ call.op = "download_file"
    /\ ~call.raised
    /\ now >= CACHE_MAX_AGE
    /\ files[MetadataFile(call.url)].timestamp = now

\* C7: after a failed download_file neither the payload nor the sidecar of
\* the URL's key exists, whatever the cache held before.
C7_FailedDownloadLeavesNoFile ==
    (call.op = "download_file" /\ call.raised) =>
        /\ CacheFile(call.url) \notin DOMAIN files
        /\ MetadataFile(call.url) \notin DOMAIN files

(***************************************************************************)
(* Claims about sweeping and measuring the cache (SpecSweep)               *)
(***************************************************************************)

\* The URL's payload and sidecar both exist and the sidecar can be read.
CompleteEntry(fs, url) == EntryExists(fs, url) /\ fs[MetadataFile(url)].ok

\* now - captured_at of a complete entry.
AgeOf(fs, t, url) == t - fs[MetadataFile(url)].timestamp

\* The files of a URL, as the directory holds them.
FilesOf(fs, url) ==
    [path \in {CacheFile(url), MetadataFile(url)} \cap DOMAIN fs |-> fs[path]]

\* C23: a clear_old_cache(max_age) call removes the payload and the sidecar
\* of every complete entry older than max_age, leaves the files of every
\* other entry as they were (an entry not older than max_age, and one whose
\* sidecar is missing or unreadable, which it skips), and does not raise.
C23_SweepRemovesExactlyTheOld ==
    [][call'.op = "clear_old_cache" =>
          /\ ~call'.raised
          /\ \A url \in Urls :
                IF /\ CompleteEntry(files, url)
                   /\ AgeOf(files, now, url) > call'.max_age
                THEN /\ ~Exists(files', CacheFile(url))
                     /\ ~Exists(files', MetadataFile(url))
                ELSE FilesOf(files', url) = FilesOf(files, url)]_vars

\* C23 witness: a sweep has removed one entry and passed over the other,
\* whose sidecar is unreadable and whose payload is still there.
C23_Witness ==
    /\ call.op = "clear_old_cache"
    /\ call.cleared = 1
    /\ \E url \in Urls :
          /\ ~Exists(files, CacheFile(url))
          /\ ~Exists(files, MetadataFile(url))
    /\ \E url \in Urls :
          /\ EntryExists(files, url)
          /\ ~files[MetadataFile(url)].ok

\* C25: get_cache_size returns the sum of the sizes of the payload files
\* alone, the sidecars not counted, and 0 for an empty cache.
C25_SizeCountsPayloadsOnly ==
    call.op = "get_cache_size" =>
        /\ call.total_size
               = SumOfSizes(files, { path \in DOMAIN files : path[2] = ".tif" })
        /\ (files = EmptyMap => call.total_size = 0)

\* C29: right after clear_old_cache(max_age) has returned, every payload
\* still in the cache belongs to an entry that get_cached_file, called with
\* the same max_age, returns: no entry aged max_age or more, no payload
\* without sidecar and no entry with an unreadable sidecar is left.
C29_SweepAndLookupAgree ==
    call.op = "clear_old_cache" =>
        \A url \in Urls :
            Exists(files, CacheFile(url)) =>
                get_cached_file(files, now, url, call.max_age) = CacheFile(url)

(***************************************************************************)
(* Claims about concurrent cache calls (SpecConcurrent)                    *)
(***************************************************************************)

\* C27: whenever a get_cached_file call running next to download_file calls
\* on the same URL returns the path, the file of that path exists and holds
\* the whole body, and the size in the metadata the call trusted is that
\* file's size.
C27_ReadersGetWholePayloads ==
    \A p \in Readers :
        At(p, "returned") /\ procs[p].result # None =>
            /\ procs[p].payload # None
            /\ procs[p].payload[1].data = Body
            /\ procs[p].metadata.size = Len(procs[p].payload[1].data)

(***************************************************************************)
(* Claims about load_raster (SpecLoad)                                     *)
(***************************************************************************)

\* A stage of the last load_raster call failed: the cache lookup raised, the
\* download it made failed, or the file could not be decoded.
StageFailed ==
    \/ load.use_cache /\ load.cache_dir # None /\ load.env.lookup = "raises"
    \/ load.downloaded /\ load.env.download # "none"
    \/ load.env.decode = "error"

C16_CacheFailureNeverCostsAUnit ==
    ( /\ load.called /\ load.use_cache /\ load.cache_dir # None
      /\ load.env.download \in {"none"} \cup CacheWriteFaults
      /\ load.env.decode = "ok" )
    => load.result.data
         = <<RemoteRaster(load.unit[1], load.unit[2], load.unit[3]).data>>

\* C17: in a run_pipeline load, use_cache=True loads a unit that has a valid
\* cache entry from that entry without a download, and use_cache=False does
\* not consult the cache.
C17_UseCacheDecides ==
    [][ (loads' # loads /\ load'.caller = "run_pipeline") =>
          LET url == get_raster_url(load'.unit[1], load'.unit[2], load'.unit[3])
          IN IF load'.run_use_cache
             THEN get_cached_file(files, now, url, CACHE_MAX_AGE) # None =>
                    /\ ~load'.downloaded
                    /\ load'.cached_file = CacheFile(url)
             ELSE ~load'.consulted ]_vars

\* C24: when a load_raster call has returned, with a grid or with the
\* failure value, no file it created in the temporary directory is left:
\* neither the NamedTemporaryFile nor what it downloaded next to it.
C24_TempFilesAreRemoved ==
    load.called => tmp_dir = EmptyMap

(***************************************************************************)
(* Claims about the registry (SpecRegistry)                                *)
(***************************************************************************)

\* C28: the registry is read-only after construction: no call of
\* summarize_raster_by_districts, with or without a reprojection of the
\* boundaries to the grid's system, of batch_summarize_rasters, of
\* create_combined_summary or of calculate_demographic_indicators changes
\* the countries of admin_boundaries or a stored boundary set (its
\* districts, their order, their geometries or its system).
C28_RegistryIsReadOnly ==
    [][admin_boundaries' = admin_boundaries]_vars

\* C28 witness: all four operations have been called; the single call
\* summarized a country whose boundaries are stored in another system than
\* the grid's, so that it reprojected them.
C28_Witness ==
    /\ zonal.called
    /\ ~zonal.none
    /\ FrameCrs(admin_boundaries[zonal.country]) # raster_info.profile.crs
    /\ \E i \in 1..Len(zonal.rows) : zonal.rows[i].population > 0
    /\ district_summaries # EmptyMap
    /\ combined_summary # <<>>
    /\ demographic_indicators.called

(***************************************************************************)
(* Claims about the metadata helpers (SpecMetadata)                        *)
(***************************************************************************)

\* C30: for the URL get_raster_url builds for a country, a sex and an age
\* band, "80_plus" included, extract_country_from_url returns the country,
\* parse_filename returns metadata with that sex, and validate_metadata
\* accepts the metadata.
C30_UrlRoundTrips ==
    url_info.called /\ url_info.country # "" =>
        /\ url_info.found = Some(url_info.country)
        /\ url_info.metadata # None
        /\ url_info.metadata[1].sex = url_info.sex
        /\ url_info.valid

(***************************************************************************)
(* Claims about zonal aggregation (SpecZonal)                              *)
(***************************************************************************)

\* The cells of the raster at hand that do not hold the nodata sentinel.
DataCells ==
    { i \in 1..Len(raster_info.data) :
        raster_info.data[i] \notin raster_info.profile.nodata }

\* The districts the summarizer was called on.
CalledDistricts == admin_boundaries[zonal.country]

\* The districts' masks do not overlap.
MasksDisjoint ==
    \A i, j \in 1..Len(CalledDistricts) :
        i # j => CalledDistricts[i].geometry \cap CalledDistricts[j].geometry = {}

\* C8: for non-overlapping district masks, the districts' populations plus
\* the non-nodata values of the cells in no district add up to the sum of
\* all non-nodata values of the grid.
C8_ZonalSumReconciles ==
    (zonal.called /\ ~zonal.none /\ MasksDisjoint) =>
        LET inSomeDistrict ==
                UNION { CalledDistricts[i].geometry : i \in 1..Len(CalledDistricts) }
        IN SeqSum([i \in 1..Len(zonal.rows) |-> zonal.rows[i].population])
             + SumOfCells(raster_info.data, DataCells \ inSomeDistrict)
           = SumOfCells(raster_info.data, DataCells)

\* C8 witness: disjoint non-empty districts, a nodata cell inside one of
\* them, and populated cells both inside and outside the districts.
C8_Witness ==
    /\ zonal.called /\ ~zonal.none /\ MasksDisjoint
    /\ \A i \in 1..Len(CalledDistricts) : CalledDistricts[i].geometry # {}
    /\ \E i \in 1..Len(CalledDistricts) :
          CalledDistricts[i].geometry \ DataCells # {}
    /\ \E c \in DataCells :
          /\ raster_info.data[c] > 0
          /\ \A i \in 1..Len(CalledDistricts) : c \notin CalledDistricts[i].geometry
    /\ \E i \in 1..Len(zonal.rows) : zonal.rows[i].population > 0

\* C9: every district of the boundary set gets population = the sum of the
\* non-nodata values inside its mask and pixel_count = their number (0 and 0
\* for an empty or all-nodata mask); the tests' two 3 x 3 blocks give 900
\* and 1800.
C9_DistrictSums ==
    (zonal.called /\ ~zonal.none) =>
        /\ Len(zonal.rows) = Len(CalledDistricts)
        /\ \A i \in 1..Len(CalledDistricts) :
              LET inside == CalledDistricts[i].geometry \cap DataCells
              IN /\ zonal.rows[i].district_id = CalledDistricts[i].district_id
                 /\ zonal.rows[i].population = SumOfCells(raster_info.data, inside)
                 /\ zonal.rows[i].pixel_count = Cardinality(inside)
                 /\ inside = {} =>
                       zonal.rows[i].population = 0 /\ zonal.rows[i].pixel_count = 0
        /\ raster_info = ScenarioRaster =>
              /\ zonal.rows[1].population = 900
              /\ zonal.rows[2].population = 1800

\* C9 witness: one district's mask is non-empty and all nodata and it is
\* reported with 0 and 0, next to a district with a positive population.
C9_Witness ==
    /\ zonal.called /\ ~zonal.none
    /\ \E i, j \in 1..Len(CalledDistricts) :
          /\ CalledDistricts[i].geometry # {}
          /\ CalledDistricts[i].geometry \cap DataCells = {}
          /\ zonal.rows[i].population = 0
          /\ zonal.rows[i].pixel_count = 0
          /\ zonal.rows[j].population > 0

(***************************************************************************)
(* Claims about boundary sets and failing districts (SpecDistricts)        *)
(***************************************************************************)

\* C19: summarize_raster_by_districts returns None exactly when the country
\* has no non-empty boundary set: when it is missing from the registry and
\* when its boundary set has no district.
C19_NoneUnlessDistricts ==
    zonal.called =>
        (zonal.none <=>
            \/ zonal.country \notin DOMAIN admin_boundaries
            \/ admin_boundaries[zonal.country] = <<>>)

\* The districts of the call whose geometry can be rasterized, in boundary
\* order.
SoundDistricts ==
    LET Sound(d) == d.geometry # Degenerate
    IN SelectSeq(CalledDistricts, Sound)

\* C20: a district whose processing fails is skipped alone: the result holds
\* exactly the other districts, in boundary order, each with its own
\* district_id, name and region and the sum of its own cells.
C20_FailedDistrictAloneIsSkipped ==
    (zonal.called /\ ~zonal.none) =>
        /\ Len(zonal.rows) = Len(SoundDistricts)
        /\ \A i \in 1..Len(SoundDistricts) :
              /\ zonal.rows[i].district_id = SoundDistricts[i].district_id
              /\ zonal.rows[i].district = SoundDistricts[i].district
              /\ zonal.rows[i].region = SoundDistricts[i].region
              /\ zonal.rows[i].population
                   = SumOfCells(raster_info.data,
                                SoundDistricts[i].geometry \cap DataCells)
              /\ zonal.rows[i].pixel_count
                   = Cardinality(SoundDistricts[i].geometry \cap DataCells)

====
